---- MODULE Spec2Model ----
(***************************************************************************)
(* Authentication / authorization / abuse-mitigation middleware of the     *)
(* review-management backend.                                              *)
(*                                                                         *)
(*   src/unnamed/part_000     the simple middleware: authenticateToken     *)
(*                            (with first-login provisioning), rateLimit,  *)
(*                            cleanupRateLimit                             *)
(*   src/middleware/auth.js   the production middleware: ipBlacklist,      *)
(*                            authenticateToken, optionalAuth,             *)
(*                            requireRole, trackFailedAttempt,             *)
(*                            cleanupSecurityData                          *)
(*   src/config/security.js   securityMonitor                             *)
(*                                                                         *)
(* The clock is Date.now() counted in ticks.  Every specification below    *)
(* shares the variables and the handlers; each draws its requests from its *)
(* own small input sets.                                                   *)
(***************************************************************************)
EXTENDS Integers, Sequences, FiniteSets, TLC

VARIABLES
    now,              \* Date.now()
    reqsLeft,         \* requests the run may still serve (caps the run)
    policies,         \* the rateLimit(max, windowMs) instances in front of the route
    rateLimitStore,   \* part_000: const rateLimitStore = new Map()
    rlResponse,       \* what the limiter chain did with the last request
    winOpened,        \* history: arrival time of the request that opened the key's window
    winSeen,          \* history: requests of the key that arrived in that window
    limiters,         \* auth.js: the store of each createRateLimit(...) instance
    failedAttempts,   \* auth.js: const failedAttempts = new Map()
    suspiciousIPs,    \* auth.js: const suspiciousIPs = new Map()
    blacklistedIPs,   \* auth.js: const blacklistedIPs = new Set()
    everFlagged,      \* history: keys whose Suspicion Score has exceeded the ceiling
    users,            \* the "users" table of the store
    response,         \* what the pipeline did with the last request
    roleResponse,     \* what requireRole did with the last request
    monitorAttempts,  \* security.js: securityMonitor.failedAttempts
    recorded,         \* history: the time of every failure recorded for a key
    bruteForce,       \* what the last checkBruteForce returned
    procs             \* the requests in flight in the simple authenticateToken

rlVars == <<policies, rateLimitStore, rlResponse, winOpened, winSeen, limiters>>

secVars == <<failedAttempts, suspiciousIPs, blacklistedIPs, everFlagged>>

smVars == <<monitorAttempts, recorded, bruteForce>>

vars == <<now, reqsLeft, rlVars, secVars, users, response, roleResponse, smVars, procs>>

None == "none"

\* A JavaScript Map is a function whose domain is the set of keys it has.
EmptyMap == [x \in {} |-> 0]

Has(m, k) == k \in DOMAIN m

Put(m, k, v) == [x \in DOMAIN m \cup {k} |-> IF x = k THEN v ELSE m[x]]

Delete(m, k) == [x \in DOMAIN m \ {k} |-> m[x]]

Get(m, k, default) == IF Has(m, k) THEN m[k] ELSE default

\* No response sent yet.
NoResponse == [status |-> 0, flip |-> FALSE]

\* Client keys (req.ip).
Keys == {"ip1", "ip2"}

\* The clock counts ticks; a second is TicksPerSecond of them.
TicksPerSecond == 2

\* Math.ceil(n / d), d > 0
CeilDiv(n, d) == (n + d - 1) \div d

\* Date.now() at start-up, in ticks.
Epoch == 5 * 100000000 * TicksPerSecond

(***************************************************************************)
(* Bounds of the rate-limiter specification.                               *)
(***************************************************************************)
MaxLimit == 5          \* largest configured maxRequests
MaxWindow == 2         \* largest configured windowMs, in ticks
MaxClockRL == 4        \* ticks the clock may advance
MaxRequestsRL == 7     \* requests served in one run

\* A run serves a bounded number of requests.
Spend ==
    /\ reqsLeft > 0
    /\ reqsLeft' = reqsLeft - 1

(***************************************************************************)
(* The clock.                                                              *)
(***************************************************************************)
Advance(d, limit) ==
    /\ now + d <= limit
    /\ now' = now + d

(***************************************************************************)
(* part_000: rateLimit(maxRequests, windowMs), the returned middleware.    *)
(* The result is the store after the request, whether next() was called,   *)
(* and the retryAfter of a 429.                                            *)
(***************************************************************************)
WindowExpired(userLimit, t) == t > userLimit.resetTime

\* Mutant: the limit test is off by one (count > max lets max + 1 through).
LimitReachedOffByOne(userLimit, maxRequests) == userLimit.count > maxRequests

LimitReached(userLimit, maxRequests) == userLimit.count >= maxRequests

rateLimit(store, key, t, maxRequests, windowMs) ==
    IF ~Has(store, key)
    THEN [store |-> Put(store, key, [count |-> 1, resetTime |-> t + windowMs]),
          next |-> TRUE, retryAfter |-> 0]
    ELSE LET userLimit == store[key] IN
         IF WindowExpired(userLimit, t)
         THEN [store |-> [store EXCEPT ![key] = [count |-> 1, resetTime |-> t + windowMs]],
               next |-> TRUE, retryAfter |-> 0]
         ELSE IF LimitReached(userLimit, maxRequests)
         THEN [store |-> store, next |-> FALSE,
               retryAfter |-> CeilDiv(userLimit.resetTime - t, TicksPerSecond)]
         ELSE [store |-> [store EXCEPT ![key].count = userLimit.count + 1],
               next |-> TRUE, retryAfter |-> 0]

\* Express runs the limiters in front of a route in order; a 429 ends the request.
RECURSIVE LimiterChain(_, _, _, _, _)
LimiterChain(store, key, t, ps, i) ==
    IF i > Len(ps)
    THEN [store |-> store, next |-> TRUE, retryAfter |-> 0, rejectedBy |-> 0]
    ELSE LET r == rateLimit(store, key, t, ps[i].max, ps[i].windowMs) IN
         IF r.next
         THEN LimiterChain(r.store, key, t, ps, i + 1)
         ELSE [store |-> r.store, next |-> FALSE, retryAfter |-> r.retryAfter,
               rejectedBy |-> i]

\* One request from `key` through the limiter chain.
RateLimitRequest(key) ==
    /\ LET r == LimiterChain(rateLimitStore, key, now, policies, 1)
           w == policies[1].windowMs
           opens == \/ ~Has(winOpened, key)
                    \/ now > winOpened[key] + w
       IN /\ rateLimitStore' = r.store
          /\ winOpened' = IF opens THEN Put(winOpened, key, now) ELSE winOpened
          /\ winSeen' = Put(winSeen, key, IF opens THEN 1 ELSE winSeen[key] + 1)
          /\ rlResponse' = [limiter |-> "rateLimit", key |-> key, at |-> now,
                            status |-> IF r.next THEN 200 ELSE 429,
                            code |-> IF r.next THEN None ELSE "RATE_LIMIT_EXCEEDED",
                            retryAfter |-> r.retryAfter,
                            rejectedBy |-> r.rejectedBy,
                            window |-> r.store[key],
                            opened |-> opens,
                            ordinal |-> IF opens THEN 1 ELSE winSeen[key] + 1]
    /\ UNCHANGED <<now, policies, limiters, secVars, users, response, roleResponse,
                   smVars, procs>>

\* Mutant: a window is deleted at its reset time already.
CleanupRateLimit_AtReset ==
    /\ rateLimitStore' =
          [k \in {x \in DOMAIN rateLimitStore : ~(now >= rateLimitStore[x].resetTime)}
              |-> rateLimitStore[k]]
    /\ UNCHANGED <<now, reqsLeft, policies, rlResponse, winOpened, winSeen, limiters>>
    /\ UNCHANGED <<secVars, users, response, roleResponse, smVars, procs>>

\* part_000: cleanupRateLimit, run from a timer.
CleanupRateLimit ==
    /\ rateLimitStore' =
          [k \in {x \in DOMAIN rateLimitStore : ~(now > rateLimitStore[x].resetTime)}
              |-> rateLimitStore[k]]
    /\ UNCHANGED <<now, reqsLeft, policies, rlResponse, winOpened, winSeen, limiters>>
    /\ UNCHANGED <<secVars, users, response, roleResponse, smVars, procs>>

TickRL ==
    /\ Advance(1, Epoch + MaxClockRL)
    /\ UNCHANGED <<reqsLeft, rlVars, secVars, users, response, roleResponse, smVars, procs>>

(***************************************************************************)
(* auth.js: createRateLimit(maxRequests, windowMs, message), a limiter of  *)
(* express-rate-limit with its own memory store: a key's first hit opens   *)
(* a window of windowMs, every hit in the window is counted, and a hit     *)
(* that takes the count past max is answered by the handler option.        *)
(***************************************************************************)
createRateLimit(store, key, t, maxRequests, windowMs) ==
    LET client == IF Has(store, key) /\ ~(store[key].resetTime <= t)
                  THEN store[key]
                  ELSE [totalHits |-> 0, resetTime |-> t + windowMs]
        hit == [client EXCEPT !.totalHits = client.totalHits + 1]
    IN [store |-> Put(store, key, hit),
        next |-> ~(hit.totalHits > maxRequests),
        retryAfter |-> IF hit.totalHits > maxRequests
                       THEN CeilDiv(windowMs, TicksPerSecond) ELSE 0]

\* One request from `key` to a route behind one createRateLimit instance.
CreateRateLimitRequest(key) ==
    /\ LET r == createRateLimit(Get(limiters, "route", EmptyMap), key, now,
                                policies[1].max, policies[1].windowMs)
       IN /\ limiters' = Put(limiters, "route", r.store)
          /\ rlResponse' = [limiter |-> "createRateLimit", key |-> key, at |-> now,
                            status |-> IF r.next THEN 200 ELSE 429,
                            code |-> IF r.next THEN None ELSE "RATE_LIMIT_EXCEEDED",
                            retryAfter |-> r.retryAfter,
                            window |-> r.store[key]]
    /\ UNCHANGED <<now, policies, rateLimitStore, winOpened, winSeen, secVars, users,
                   response, roleResponse, smVars, procs>>

(***************************************************************************)
(* Tokens.  A token is the sequence of its characters; <<>> is a request   *)
(* whose Authorization header carries no token.                            *)
(***************************************************************************)
StartsWith(s, p) == Len(s) >= Len(p) /\ SubSeq(s, 1, Len(p)) = p

\* String.prototype.split(sep): the segments between the separators.
RECURSIVE Split(_, _)
Split(s, sep) ==
    IF \A i \in 1..Len(s) : s[i] # sep
    THEN <<s>>
    ELSE LET i == CHOOSE j \in 1..Len(s) :
                      s[j] = sep /\ \A h \in 1..(j - 1) : s[h] # sep
         IN <<SubSeq(s, 1, i - 1)>> \o Split(SubSeq(s, i + 1, Len(s)), sep)

\* Mutant: only the prefix is tested (as the simple middleware does).
isValidJWTFormatPrefixOnly(token) ==
    /\ token # <<>>
    /\ StartsWith(token, <<"e", "y", "J">>)

\* auth.js: isValidJWTFormat
isValidJWTFormat(token) ==
    /\ token # <<>>
    /\ StartsWith(token, <<"e", "y", "J">>)
    /\ Len(Split(token, ".")) = 3

(***************************************************************************)
(* The identity provider, as the request sees it.  A request carries what  *)
(* the provider holds about its token: tokenState, the decoded claims and  *)
(* the account.  A thrown error is its error.code (None: an error without  *)
(* a code, such as a network failure).                                     *)
(***************************************************************************)
Ok == "ok"

\* auth.verifyIdToken(token, checkRevoked)
verifyIdToken(req, checkRevoked) ==
    CASE req.tokenState = "expired" -> "auth/id-token-expired"
      [] req.tokenState = "garbage" -> "auth/argument-error"
      [] req.tokenState = "unreachable" -> None
      [] req.tokenState = "revoked" /\ checkRevoked -> "auth/id-token-revoked"
      [] OTHER -> Ok

\* The second of start-up; a token's exp and iat are req.expIn and req.iatIn
\* seconds after it.
EpochSeconds == Epoch \div TicksPerSecond

\* Mutant: a token that expires this very second still passes.
isTokenValid_ExpiresLate(req, t) ==
    LET nowSeconds == t \div TicksPerSecond IN
    /\ ~(EpochSeconds + req.expIn < nowSeconds)
    /\ ~(EpochSeconds + req.iatIn > nowSeconds + 60)
    /\ req.aud
    /\ req.iss

\* auth.js: isTokenValid(decodedToken); aud and iss are the truthiness of
\* the claims.
isTokenValid(req, t) ==
    LET nowSeconds == t \div TicksPerSecond IN
    /\ ~(EpochSeconds + req.expIn <= nowSeconds)
    /\ ~(EpochSeconds + req.iatIn > nowSeconds + 60)
    /\ req.aud
    /\ req.iss

\* auth.js: handleAuthError(error)
handleAuthError(code) ==
    CASE code = "auth/id-token-expired" -> [status |-> 401, code |-> "TOKEN_EXPIRED"]
      [] code = "auth/id-token-revoked" -> [status |-> 401, code |-> "TOKEN_REVOKED"]
      [] code = "auth/argument-error" -> [status |-> 401, code |-> "TOKEN_INVALID"]
      [] code = "auth/user-not-found" -> [status |-> 404, code |-> "USER_NOT_FOUND"]
      [] code = "auth/user-disabled" -> [status |-> 403, code |-> "ACCOUNT_DISABLED"]
      [] OTHER -> [status |-> 401, code |-> "AUTH_FAILED"]

(***************************************************************************)
(* The user store: the rows of "users", unique on firebase_uid and on      *)
(* email.  A query result is {data, error} as the client library returns   *)
(* it; req.dbFaults names the calls of the request that fail.              *)
(***************************************************************************)
NoRow == [id |-> 0]

Rows(us) == {us[i] : i \in 1..Len(us)}

\* .single(): exactly one row, else error PGRST116.
Single(rows) ==
    IF Cardinality(rows) = 1
    THEN [data |-> CHOOSE r \in rows : TRUE, error |-> None]
    ELSE [data |-> NoRow, error |-> "PGRST116"]

DbError == [data |-> NoRow, error |-> "DB_ERROR"]

SelectByUid(us, uid, faults) ==
    IF "selectUid" \in faults THEN DbError
    ELSE Single({r \in Rows(us) : r.firebase_uid = uid})

SelectByEmail(us, email, faults) ==
    IF "selectEmail" \in faults THEN DbError
    ELSE Single({r \in Rows(us) : r.email = email})

\* Mutant: the update answers with the linked row but writes nothing.
UpdateUid_NoWrite(us, id, uid, faults) ==
    IF id \notin 1..Len(us)
    THEN [users |-> us, data |-> NoRow, error |-> "PGRST116"]
    ELSE [users |-> us, data |-> [us[id] EXCEPT !.firebase_uid = uid], error |-> None]

\* .update({firebase_uid}).eq("id", id).select().single()
UpdateUid(us, id, uid, faults) ==
    IF "link" \in faults
    THEN [users |-> us, data |-> NoRow, error |-> "DB_ERROR"]
    ELSE IF \E r \in Rows(us) : r.firebase_uid = uid /\ r.id # id
    THEN [users |-> us, data |-> NoRow, error |-> "23505"]
    ELSE IF id \notin 1..Len(us)
    THEN [users |-> us, data |-> NoRow, error |-> "PGRST116"]
    ELSE LET row == [us[id] EXCEPT !.firebase_uid = uid]
         IN [users |-> [us EXCEPT ![id] = row], data |-> row, error |-> None]

\* part_000: .update({firebase_uid, email}).eq("id", id).select().single()
LinkUser(us, id, uid, email, faults) ==
    IF "link" \in faults
    THEN [users |-> us, data |-> NoRow, error |-> "DB_ERROR"]
    ELSE IF \E r \in Rows(us) : (r.firebase_uid = uid \/ r.email = email) /\ r.id # id
    THEN [users |-> us, data |-> NoRow, error |-> "23505"]
    ELSE IF id \notin 1..Len(us)
    THEN [users |-> us, data |-> NoRow, error |-> "PGRST116"]
    ELSE LET row == [us[id] EXCEPT !.firebase_uid = uid, !.email = email]
         IN [users |-> [us EXCEPT ![id] = row], data |-> row, error |-> None]

\* .insert([{firebase_uid, email, role}]).select().single()
InsertUser(us, uid, email, role, faults) ==
    IF "insert" \in faults
    THEN [users |-> us, data |-> NoRow, error |-> "DB_ERROR"]
    ELSE IF \E r \in Rows(us) : r.firebase_uid = uid \/ r.email = email
    THEN [users |-> us, data |-> NoRow, error |-> "23505"]
    ELSE LET row == [id |-> Len(us) + 1, firebase_uid |-> uid, email |-> email,
                     role |-> role, is_suspended |-> FALSE, last_login |-> 0]
         IN [users |-> Append(us, row), data |-> row, error |-> None]

\* auth.js: updateLastLogin(userId); its result is ignored.
updateLastLogin(us, id, t, faults) ==
    IF "lastLogin" \in faults \/ id \notin 1..Len(us)
    THEN us
    ELSE [us EXCEPT ![id].last_login = t]

\* auth.js: !existingUser.firebase_uid
Unlinked(row) == row.firebase_uid = None

\* auth.js: getSupabaseUser(firebaseUid, email): the store after it and the
\* row returned (NoRow: null or undefined).
getSupabaseUser(us, firebaseUid, email, faults) ==
    LET q1 == SelectByUid(us, firebaseUid, faults) IN
    IF q1.error \notin {None, "PGRST116"}
    THEN [users |-> us, user |-> NoRow]
    ELSE IF q1.data = NoRow /\ email # None
    THEN LET q2 == SelectByEmail(us, email, faults) IN
         IF q2.error = None /\ q2.data # NoRow /\ Unlinked(q2.data)
         THEN LET upd == UpdateUid(us, q2.data.id, firebaseUid, faults) IN
              IF upd.error = None
              THEN [users |-> upd.users, user |-> upd.data]
              ELSE [users |-> us, user |-> q1.data]
         ELSE [users |-> us, user |-> q1.data]
    ELSE [users |-> us, user |-> q1.data]

(***************************************************************************)
(* The abuse tracker of auth.js.                                           *)
(***************************************************************************)
FifteenMinutes == 15 * 60 * TicksPerSecond

OneHour == 60 * 60 * TicksPerSecond

FiveMinutes == 5 * 60 * TicksPerSecond

RetentionCap == 10

BruteForceThreshold == 5

SuspicionCeiling == 20

\* Mutant: a full log drops the entry just pushed instead of the oldest.
trackFailedAttempt_EvictsNewest(fa, sus, ip, reason, t) ==
    LET pushed == Append(Get(fa, ip, <<>>), [timestamp |-> t, reason |-> reason])
        attempts == IF Len(pushed) > RetentionCap
                    THEN SubSeq(pushed, 1, RetentionCap) ELSE pushed
        recentAttempts == SelectSeq(attempts,
                              LAMBDA a : t - a.timestamp < FifteenMinutes)
    IN [failedAttempts |-> Put(fa, ip, attempts),
        suspiciousIPs |->
            IF Len(recentAttempts) >= BruteForceThreshold
            THEN Put(sus, ip, Get(sus, ip, 0) + 1)
            ELSE sus]

\* Mutant: every logged attempt counts, whatever its age.
trackFailedAttempt_CountsWholeLog(fa, sus, ip, reason, t) ==
    LET pushed == Append(Get(fa, ip, <<>>), [timestamp |-> t, reason |-> reason])
        attempts == IF Len(pushed) > RetentionCap THEN Tail(pushed) ELSE pushed
    IN [failedAttempts |-> Put(fa, ip, attempts),
        suspiciousIPs |->
            IF Len(attempts) >= BruteForceThreshold
            THEN Put(sus, ip, Get(sus, ip, 0) + 1)
            ELSE sus]

\* auth.js: trackFailedAttempt(ip, reason)
trackFailedAttempt(fa, sus, ip, reason, t) ==
    LET pushed == Append(Get(fa, ip, <<>>), [timestamp |-> t, reason |-> reason])
        attempts == IF Len(pushed) > RetentionCap THEN Tail(pushed) ELSE pushed
        recentAttempts == SelectSeq(attempts,
                              LAMBDA a : t - a.timestamp < FifteenMinutes)
    IN [failedAttempts |-> Put(fa, ip, attempts),
        suspiciousIPs |->
            IF Len(recentAttempts) >= BruteForceThreshold
            THEN Put(sus, ip, Get(sus, ip, 0) + 1)
            ELSE sus]

\* Mutant: the check looks at the Suspicion Score only, never at the set.
ipBlacklist_ScoreOnly(bl, sus, ip) ==
    IF Get(sus, ip, 0) > SuspicionCeiling
    THEN [blacklistedIPs |-> bl \cup {ip}, next |-> FALSE,
          status |-> 403, code |-> "IP_SUSPICIOUS_BLOCKED"]
    ELSE [blacklistedIPs |-> bl, next |-> TRUE, status |-> 0, code |-> None]

\* auth.js: ipBlacklist(req, res, next)
ipBlacklist(bl, sus, ip) ==
    IF ip \in bl
    THEN [blacklistedIPs |-> bl, next |-> FALSE,
          status |-> 403, code |-> "IP_BLACKLISTED"]
    ELSE IF Get(sus, ip, 0) > SuspicionCeiling
    THEN [blacklistedIPs |-> bl \cup {ip}, next |-> FALSE,
          status |-> 403, code |-> "IP_SUSPICIOUS_BLOCKED"]
    ELSE [blacklistedIPs |-> bl, next |-> TRUE, status |-> 0, code |-> None]

\* Mutant: an entry that is exactly fifteen minutes old survives the sweep.
SweepFailedAttempts_KeepsBoundary(fa, t) ==
    LET recent(ip) == SelectSeq(fa[ip],
                          LAMBDA a : a.timestamp >= t - FifteenMinutes)
    IN [ip \in {k \in DOMAIN fa : Len(recent(k)) # 0} |-> recent(ip)]

\* auth.js: cleanupSecurityData(), the first loop.
SweepFailedAttempts(fa, t) ==
    LET recent(ip) == SelectSeq(fa[ip],
                          LAMBDA a : a.timestamp > t - FifteenMinutes)
    IN [ip \in {k \in DOMAIN fa : Len(recent(k)) # 0} |-> recent(ip)]

\* auth.js: cleanupSecurityData(), the second loop: the map holds the count
\* under the name firstSuspicious and compares it with a time.
SweepSuspicious(sus, t) ==
    [ip \in {k \in DOMAIN sus : ~(sus[k] < t - OneHour)} |-> sus[ip]]

(***************************************************************************)
(* Requests.  ip is the client key; token the bearer token; tokenState,    *)
(* uid, email, tokenEmail, role (a custom claim), expIn, iatIn, aud, iss   *)
(* what the provider decodes from the token; getUser and disabled the      *)
(* provider's account; dbFaults the store calls that fail.                 *)
(***************************************************************************)
GoodToken == <<"e", "y", "J", ".", ".">>

Request(ip, token, tokenState, uid, email) ==
    [ip |-> ip, token |-> token, tokenState |-> tokenState,
     uid |-> uid, email |-> email, tokenEmail |-> email, role |-> None,
     expIn |-> 3600, iatIn |-> 0, aud |-> TRUE, iss |-> TRUE,
     getUser |-> Ok, disabled |-> FALSE, dbFaults |-> {}]

NoUser == [uid |-> 0]

\* req.user as authenticateToken of auth.js attaches it.
Principal(row, req) ==
    [uid |-> row.id, firebase_uid |-> req.uid,
     email |-> IF req.email # None THEN req.email ELSE row.email,
     role |-> row.role]

Reject(fa, sus, us, status, code, calls) ==
    [failedAttempts |-> fa, suspiciousIPs |-> sus, users |-> us,
     status |-> status, code |-> code, user |-> NoUser,
     verifyCalls |-> calls, next |-> FALSE]

\* Mutant: the catch block maps the failure and does not track it.
Caught_Untracked(fa, sus, us, ip, errorCode, t, calls) ==
    LET e == handleAuthError(errorCode)
    IN Reject(fa, sus, us, e.status, e.code, calls)

\* The catch block of authenticateToken: the failure is tracked and mapped.
Caught(fa, sus, us, ip, errorCode, t, calls) ==
    LET tr == trackFailedAttempt(fa, sus, ip,
                  IF errorCode # None THEN errorCode ELSE "AUTH_ERROR", t)
        e == handleAuthError(errorCode)
    IN Reject(tr.failedAttempts, tr.suspiciousIPs, us, e.status, e.code, calls)

\* Mutant: the failed attempts survive a successful authentication.
ResetFailedAttempts_Keep(fa, ip) == fa

\* auth.js:177  failedAttempts.delete(ip)
ResetFailedAttempts(fa, ip) == Delete(fa, ip)

\* auth.js: authenticateToken(req, res, next), run without interruption.
authenticateToken(fa, sus, us, req, t) ==
    IF req.token = <<>>
    THEN LET tr == trackFailedAttempt(fa, sus, req.ip, "NO_TOKEN", t)
         IN Reject(tr.failedAttempts, tr.suspiciousIPs, us, 401, "TOKEN_MISSING", 0)
    ELSE IF ~isValidJWTFormat(req.token)
    THEN LET tr == trackFailedAttempt(fa, sus, req.ip, "INVALID_FORMAT", t)
         IN Reject(tr.failedAttempts, tr.suspiciousIPs, us, 401,
                   "TOKEN_INVALID_FORMAT", 0)
    ELSE LET v == verifyIdToken(req, TRUE) IN
    IF v # Ok
    THEN Caught(fa, sus, us, req.ip, v, t, 1)
    ELSE IF ~isTokenValid(req, t)
    THEN LET tr == trackFailedAttempt(fa, sus, req.ip, "TOKEN_INVALID", t)
         IN Reject(tr.failedAttempts, tr.suspiciousIPs, us, 401,
                   "TOKEN_CLAIMS_INVALID", 1)
    ELSE IF req.getUser # Ok
    THEN Caught(fa, sus, us, req.ip, req.getUser, t, 1)
    ELSE IF req.disabled
    THEN Reject(fa, sus, us, 403, "ACCOUNT_DISABLED", 1)
    ELSE LET g == getSupabaseUser(us, req.uid,
                      IF req.email # None THEN req.email ELSE req.tokenEmail,
                      req.dbFaults)
         IN
    IF g.user = NoRow
    THEN Reject(fa, sus, g.users, 404, "USER_NOT_FOUND_DB", 1)
    ELSE IF g.user.role = "inactive" \/ g.user.is_suspended
    THEN Reject(fa, sus, g.users, 403, "ACCOUNT_INACTIVE", 1)
    ELSE [failedAttempts |-> ResetFailedAttempts(fa, req.ip),
          suspiciousIPs |-> sus,
          users |-> updateLastLogin(g.users, g.user.id, t, req.dbFaults),
          status |-> 200, code |-> None, user |-> Principal(g.user, req),
          verifyCalls |-> 1, next |-> TRUE]

\* auth.js: optionalAuth(req, res, next): next() is called on every path.
optionalAuth(us, req) ==
    LET skip(store, calls) ==
            [users |-> store, user |-> NoUser, verifyCalls |-> calls, next |-> TRUE]
    IN
    IF req.token = <<>>
    THEN skip(us, 0)
    ELSE IF ~isValidJWTFormat(req.token)
    THEN skip(us, 0)
    ELSE IF verifyIdToken(req, FALSE) # Ok
    THEN skip(us, 1)
    ELSE IF req.getUser # Ok
    THEN skip(us, 1)
    ELSE LET g == getSupabaseUser(us, req.uid, req.email, req.dbFaults) IN
    IF g.user # NoRow /\ g.user.role # "inactive"
    THEN [users |-> g.users, user |-> Principal(g.user, req),
          verifyCalls |-> 1, next |-> TRUE]
    ELSE skip(g.users, 1)

Flagged(sus) == {k \in DOMAIN sus : sus[k] > SuspicionCeiling}

\* A request to a protected route: app.use(ipBlacklist), then the route's
\* authenticateToken, then the handler.
ProtectedRequest(req) ==
    /\ LET b == ipBlacklist(blacklistedIPs, suspiciousIPs, req.ip)
           a == authenticateToken(failedAttempts, suspiciousIPs, users, req, now)
       IN IF ~b.next
          THEN /\ blacklistedIPs' = b.blacklistedIPs
               /\ response' = [handler |-> "authenticateToken", req |-> req,
                               at |-> now,
                               status |-> b.status, code |-> b.code,
                               stage |-> "ipBlacklist", user |-> NoUser,
                               verifyCalls |-> 0, next |-> FALSE,
                               wasFlagged |-> req.ip \in everFlagged,
                               hadLog |-> Has(failedAttempts, req.ip),
                               flip |-> ~response.flip]
               /\ UNCHANGED <<failedAttempts, suspiciousIPs, users, everFlagged>>
          ELSE /\ blacklistedIPs' = b.blacklistedIPs
               /\ failedAttempts' = a.failedAttempts
               /\ suspiciousIPs' = a.suspiciousIPs
               /\ users' = a.users
               /\ everFlagged' = everFlagged \cup Flagged(a.suspiciousIPs)
               /\ response' = [handler |-> "authenticateToken", req |-> req,
                               at |-> now,
                               status |-> a.status, code |-> a.code,
                               stage |-> IF a.next THEN "handler"
                                         ELSE "authenticateToken",
                               user |-> a.user, verifyCalls |-> a.verifyCalls,
                               next |-> a.next,
                               wasFlagged |-> req.ip \in everFlagged,
                               hadLog |-> Has(failedAttempts, req.ip),
                               flip |-> ~response.flip]
    /\ UNCHANGED <<now, rlVars, roleResponse, smVars>>

\* A request to a public route behind optionalAuth.
OptionalRequest(req) ==
    /\ LET b == ipBlacklist(blacklistedIPs, suspiciousIPs, req.ip)
           a == optionalAuth(users, req)
       IN IF ~b.next
          THEN /\ blacklistedIPs' = b.blacklistedIPs
               /\ response' = [handler |-> "optionalAuth", req |-> req,
                               status |-> b.status, code |-> b.code,
                               stage |-> "ipBlacklist", user |-> NoUser,
                               verifyCalls |-> 0, next |-> FALSE,
                               wasFlagged |-> req.ip \in everFlagged,
                               hadLog |-> Has(failedAttempts, req.ip),
                               flip |-> ~response.flip]
               /\ UNCHANGED users
          ELSE /\ blacklistedIPs' = b.blacklistedIPs
               /\ users' = a.users
               /\ response' = [handler |-> "optionalAuth", req |-> req,
                               status |-> 200, code |-> None,
                               stage |-> "handler", user |-> a.user,
                               verifyCalls |-> a.verifyCalls, next |-> a.next,
                               wasFlagged |-> req.ip \in everFlagged,
                               hadLog |-> Has(failedAttempts, req.ip),
                               flip |-> ~response.flip]
    /\ UNCHANGED <<now, rlVars, failedAttempts, suspiciousIPs, everFlagged, roleResponse, smVars>>

\* auth.js: cleanupSecurityData(), run by setInterval every five minutes.
CleanupSecurityData ==
    /\ failedAttempts' = SweepFailedAttempts(failedAttempts, now)
    /\ suspiciousIPs' = SweepSuspicious(suspiciousIPs, now)
    /\ UNCHANGED <<now, reqsLeft, rlVars, blacklistedIPs, everFlagged, users, response,
                   roleResponse, smVars, procs>>

InitRLVars ==
    /\ rateLimitStore = EmptyMap
    /\ rlResponse = NoResponse
    /\ winOpened = EmptyMap
    /\ winSeen = EmptyMap
    /\ limiters = EmptyMap

InitSecVars ==
    /\ failedAttempts = EmptyMap
    /\ suspiciousIPs = EmptyMap
    /\ blacklistedIPs = {}
    /\ everFlagged = {}

InitMonitorVars ==
    /\ monitorAttempts = EmptyMap
    /\ recorded = EmptyMap
    /\ bruteForce = None

\* One limiter used alone, any configuration.
InitRL ==
    /\ now = Epoch
    /\ reqsLeft = MaxRequestsRL
    /\ \E m \in 1..MaxLimit, w \in 1..MaxWindow :
          policies = <<[max |-> m, windowMs |-> w]>>
    /\ InitRLVars
    /\ InitSecVars
    /\ users = <<>>
    /\ response = NoResponse
    /\ roleResponse = NoResponse
    /\ InitMonitorVars
    /\ procs = EmptyMap

NextRL ==
    \/ \E k \in Keys : Spend /\ RateLimitRequest(k)
    \/ CleanupRateLimit
    \/ TickRL

SpecRL == InitRL /\ [][NextRL]_vars

(***************************************************************************)
(* C1: with one limiter rateLimit(max, windowMs), max >= 1, the i-th       *)
(* request of a key in a window (the window runs from the request that     *)
(* opened it until the clock passes that request's time + windowMs) is     *)
(* allowed exactly when i <= max and is otherwise rejected with 429        *)
(* RATE_LIMIT_EXCEEDED; a request arriving with no window, or after the    *)
(* window elapsed, is allowed and leaves count = 1, reset = now + windowMs.*)
(***************************************************************************)
C1_FixedWindow ==
    rlResponse # NoResponse =>
        /\ (rlResponse.status = 200) <=> (rlResponse.ordinal <= policies[1].max)
        /\ rlResponse.status # 200 =>
              /\ rlResponse.status = 429
              /\ rlResponse.code = "RATE_LIMIT_EXCEEDED"
        /\ rlResponse.opened =>
              /\ rlResponse.status = 200
              /\ rlResponse.window =
                    [count |-> 1, resetTime |-> rlResponse.at + policies[1].windowMs]

\* max = 5: the sixth back-to-back request of a key is rejected.
C1_Witness ==
    /\ rlResponse # NoResponse
    /\ policies[1].max = 5
    /\ rlResponse.status = 429
    /\ rlResponse.ordinal = 6
    /\ rlResponse.at = Epoch

(***************************************************************************)
(* The abuse specification: protected requests with and without a token    *)
(* from every key, the sweep, and the clock in sweep periods.              *)
(***************************************************************************)
MaxPeriodsAbuse == 1       \* sweep periods the clock may advance

\* A provisioned, linked, active account.
KnownUser ==
    [id |-> 1, firebase_uid |-> "u1", email |-> "a@x", role |-> "client",
     is_suspended |-> FALSE, last_login |-> 0]

\* ip1 sends requests without a token; both keys send valid ones.
RequestsAbuse ==
    {Request("ip1", <<>>, "good", "u1", "a@x")}
        \cup {Request(ip, GoodToken, "good", "u1", "a@x") : ip \in Keys}

InitAbuse ==
    /\ now = Epoch
    /\ reqsLeft = 0
    /\ policies = <<>>
    /\ InitRLVars
    /\ InitSecVars
    /\ users = <<KnownUser>>
    /\ response = NoResponse
    /\ roleResponse = NoResponse
    /\ InitMonitorVars
    /\ procs = EmptyMap

TickAbuse ==
    /\ Advance(FiveMinutes, Epoch + MaxPeriodsAbuse * FiveMinutes)
    /\ UNCHANGED <<reqsLeft, rlVars, secVars, users, response, roleResponse, smVars, procs>>

NextAbuse ==
    \/ \E req \in RequestsAbuse :
          ProtectedRequest(req) /\ UNCHANGED <<reqsLeft, procs>>
    \/ CleanupSecurityData
    \/ TickAbuse

SpecAbuse == InitAbuse /\ [][NextAbuse]_vars

(***************************************************************************)
(* C2: once the Suspicion Score of a key has exceeded 20, every later      *)
(* request from the key is rejected with 403 by the blacklist check,       *)
(* before any token validation, whatever sweeps ran in between.            *)
(***************************************************************************)
C2_FlaggedStaysBlocked ==
    (response # NoResponse /\ response.wasFlagged) =>
        /\ response.status = 403
        /\ response.stage = "ipBlacklist"
        /\ response.verifyCalls = 0

(***************************************************************************)
(* C6: a request of key k that authenticateToken authenticates leaves no   *)
(* Failed-Attempt Log for k, and leaves the Suspicion Scores, the          *)
(* Blacklist and the log of every other key as they were.                  *)
(***************************************************************************)
AuthenticatedStep ==
    /\ response'.flip # response.flip
    /\ response'.handler = "authenticateToken"
    /\ response'.next

C6_SuccessClearsOnlyLog ==
    [][AuthenticatedStep =>
          LET k == response'.req.ip IN
          /\ ~Has(failedAttempts', k)
          /\ suspiciousIPs' = suspiciousIPs
          /\ blacklistedIPs' = blacklistedIPs
          /\ \A j \in Keys \ {k} :
                /\ Has(failedAttempts', j) <=> Has(failedAttempts, j)
                /\ Get(failedAttempts', j, <<>>) = Get(failedAttempts, j, <<>>)]_vars

\* A key with logged failures and a Suspicion Score authenticates.
C6_Witness ==
    /\ response # NoResponse
    /\ response.handler = "authenticateToken"
    /\ response.next
    /\ response.hadLog
    /\ Has(suspiciousIPs, response.req.ip)
    /\ ~Has(failedAttempts, response.req.ip)

(***************************************************************************)
(* The token specification: one request per run, carrying any token of up  *)
(* to MaxTokenLen characters (or "not.a.jwt"), to a protected route or to  *)
(* an optionalAuth route.                                                  *)
(***************************************************************************)
MaxTokenLen == 5           \* longest enumerated token

TokenChars == {"e", "y", "J", ".", "x"}

NotAJwt == <<"n", "o", "t", ".", "a", ".", "j", "w", "t">>

Tokens ==
    UNION {[1..n -> TokenChars] : n \in 0..MaxTokenLen} \cup {NotAJwt}

RequestsTok ==
    {Request("ip1", tok, st, "u1", "a@x") : tok \in Tokens, st \in {"good", "garbage"}}

InitTok ==
    /\ now = Epoch
    /\ reqsLeft = 1
    /\ policies = <<>>
    /\ InitRLVars
    /\ InitSecVars
    /\ users = <<KnownUser>>
    /\ response = NoResponse
    /\ roleResponse = NoResponse
    /\ InitMonitorVars
    /\ procs = EmptyMap

NextTok ==
    \/ Spend /\ \E req \in RequestsTok : ProtectedRequest(req) /\ UNCHANGED procs
    \/ Spend /\ \E req \in RequestsTok : OptionalRequest(req) /\ UNCHANGED procs

SpecTok == InitTok /\ [][NextTok]_vars

(***************************************************************************)
(* C3: a request whose bearer token does not start with "eyJ" or does not  *)
(* consist of exactly three dot-separated segments is rejected by          *)
(* authenticateToken with 401 TOKEN_INVALID_FORMAT, is passed on by        *)
(* optionalAuth without a Principal, and in both cases no verify call is   *)
(* made to the identity provider.                                          *)
(***************************************************************************)
Dots(token) == Cardinality({i \in 1..Len(token) : token[i] = "."})

Malformed(token) ==
    \/ Len(token) < 3
    \/ token[1] # "e" \/ token[2] # "y" \/ token[3] # "J"
    \/ Dots(token) # 2

C3_MalformedNeverVerified ==
    (/\ response # NoResponse
     /\ response.stage # "ipBlacklist"
     /\ response.req.token # <<>>
     /\ Malformed(response.req.token)) =>
        /\ response.verifyCalls = 0
        /\ response.user = NoUser
        /\ response.handler = "authenticateToken" =>
              /\ response.status = 401
              /\ response.code = "TOKEN_INVALID_FORMAT"
              /\ ~response.next
        /\ response.handler = "optionalAuth" => response.next

\* "not.a.jwt" was sent to authenticateToken.
C3_Witness ==
    /\ response # NoResponse
    /\ response.handler = "authenticateToken"
    /\ response.req.token = NotAJwt
    /\ response.code = "TOKEN_INVALID_FORMAT"

(***************************************************************************)
(* The access control gate of auth.js.                                     *)
(***************************************************************************)
Includes(array, x) == \E i \in 1..Len(array) : array[i] = x

\* Mutant: the hierarchy lets a manager act as admin.
RoleHierarchy_ManagerIsAdmin ==
    [admin |-> <<"admin", "manager", "client">>,
     manager |-> <<"admin", "manager", "client">>,
     client |-> <<"client">>]

\* auth.js:433  const roleHierarchy
RoleHierarchy ==
    [admin |-> <<"admin", "manager", "client">>,
     manager |-> <<"manager", "client">>,
     client |-> <<"client">>]

\* Mutant: strictMode is ignored.
checkRolePermission_NoStrict(userRole, allowedRoles, strictMode) ==
    \/ Includes(allowedRoles, userRole)
    \/ LET userPermissions == IF userRole \in DOMAIN RoleHierarchy
                              THEN RoleHierarchy[userRole] ELSE <<userRole>>
       IN \E i \in 1..Len(allowedRoles) : Includes(userPermissions, allowedRoles[i])

\* auth.js: checkRolePermission(userRole, allowedRoles, strictMode)
checkRolePermission(userRole, allowedRoles, strictMode) ==
    IF Includes(allowedRoles, userRole)
    THEN TRUE
    ELSE IF ~strictMode
    THEN LET userPermissions == IF userRole \in DOMAIN RoleHierarchy
                                THEN RoleHierarchy[userRole] ELSE <<userRole>>
         IN \E i \in 1..Len(allowedRoles) : Includes(userPermissions, allowedRoles[i])
    ELSE FALSE

\* auth.js: requireRole(allowedRoles, {strictMode})(req, res, next)
requireRole(user, allowedRoles, strictMode) ==
    IF user = NoUser
    THEN [status |-> 401, code |-> "AUTH_REQUIRED", next |-> FALSE]
    ELSE IF ~checkRolePermission(user.role, allowedRoles, strictMode)
    THEN [status |-> 403, code |-> "INSUFFICIENT_PERMISSIONS", next |-> FALSE]
    ELSE [status |-> 200, code |-> None, next |-> TRUE]

RequireRole(user, allowedRoles, strictMode) ==
    /\ roleResponse' = [user |-> user, allowedRoles |-> allowedRoles,
                        strictMode |-> strictMode,
                        result |-> requireRole(user, allowedRoles, strictMode)]
    /\ UNCHANGED <<now, rlVars, secVars, users, response, smVars, procs>>

(***************************************************************************)
(* The role specification: one role check per run, for every role, every   *)
(* list of up to MaxAllowedRoles allowed roles and both modes.             *)
(***************************************************************************)
MaxAllowedRoles == 2       \* longest allowedRoles list

Roles == {"admin", "manager", "client", "team_member", "business_owner", "inactive"}

RoleLists == UNION {[1..n -> Roles] : n \in 0..MaxAllowedRoles}

RoleUsers ==
    {NoUser} \cup {[uid |-> 1, firebase_uid |-> "u1", email |-> "a@x", role |-> r] :
                      r \in Roles}

InitRole ==
    /\ now = Epoch
    /\ reqsLeft = 1
    /\ policies = <<>>
    /\ InitRLVars
    /\ InitSecVars
    /\ users = <<>>
    /\ response = NoResponse
    /\ roleResponse = NoResponse
    /\ InitMonitorVars
    /\ procs = EmptyMap

NextRole ==
    Spend /\ \E u \in RoleUsers, a \in RoleLists, s \in BOOLEAN : RequireRole(u, a, s)

SpecRole == InitRole /\ [][NextRole]_vars

(***************************************************************************)
(* C4: authorize(principalRole, allowedRoles, strictMode) is true exactly  *)
(* when principalRole is in allowedRoles, or strictMode is off and         *)
(* allowedRoles holds a role that principalRole dominates in               *)
(* admin > manager > client (a role outside the chain dominates only       *)
(* itself); so admin passes [client] unless strict, client never passes    *)
(* [admin], and with strictMode the answer is membership.                  *)
(***************************************************************************)
Rank(role) ==
    CASE role = "admin" -> 3
      [] role = "manager" -> 2
      [] role = "client" -> 1
      [] OTHER -> 0

Dominates(a, b) == a = b \/ (Rank(b) > 0 /\ Rank(a) >= Rank(b))

Authorized(role, allowedRoles, strictMode) ==
    LET allowed == {allowedRoles[i] : i \in 1..Len(allowedRoles)}
    IN \/ role \in allowed
       \/ ~strictMode /\ \E r \in allowed : Dominates(role, r)

C4_RoleHierarchy ==
    /\ checkRolePermission("admin", <<"client">>, FALSE)
    /\ ~checkRolePermission("client", <<"admin">>, FALSE)
    /\ ~checkRolePermission("admin", <<"client">>, TRUE)
    /\ (roleResponse # NoResponse /\ roleResponse.user # NoUser) =>
          /\ roleResponse.result.next <=>
                Authorized(roleResponse.user.role, roleResponse.allowedRoles,
                           roleResponse.strictMode)
          /\ ~roleResponse.result.next =>
                /\ roleResponse.result.status = 403
                /\ roleResponse.result.code = "INSUFFICIENT_PERMISSIONS"

\* A manager was let through a client-or-team-member route by the hierarchy.
C4_Witness ==
    /\ roleResponse # NoResponse
    /\ roleResponse.user # NoUser
    /\ roleResponse.user.role = "manager"
    /\ roleResponse.allowedRoles = <<"team_member", "client">>
    /\ ~roleResponse.strictMode
    /\ roleResponse.result.next

(***************************************************************************)
(* securityMonitor of config/security.js: the configurable brute-force     *)
(* check over its own failed-attempt log.                                  *)
(***************************************************************************)
MonitorCap == 20

\* Mutant: the log keeps only the last 10 attempts, like trackFailedAttempt.
recordFailedAttempt_Cap10(attempts, ip, reason, t) ==
    LET pushed == Append(Get(attempts, ip, <<>>), [timestamp |-> t, reason |-> reason])
    IN Put(attempts, ip, IF Len(pushed) > 10 THEN Tail(pushed) ELSE pushed)

\* security.js: securityMonitor.recordFailedAttempt(ip, reason)
recordFailedAttempt(attempts, ip, reason, t) ==
    LET pushed == Append(Get(attempts, ip, <<>>), [timestamp |-> t, reason |-> reason])
    IN Put(attempts, ip, IF Len(pushed) > MonitorCap THEN Tail(pushed) ELSE pushed)

\* security.js: securityMonitor.checkBruteForce(ip, maxAttempts, windowMs):
\* what it returns and the log it leaves.
checkBruteForce(attempts, ip, maxAttempts, windowMs, t) ==
    LET recentAttempts == SelectSeq(Get(attempts, ip, <<>>),
                              LAMBDA a : t - a.timestamp < windowMs)
    IN [failedAttempts |-> attempts,
        result |-> Len(recentAttempts) >= maxAttempts]

RecordFailedAttempt(ip, reason) ==
    /\ monitorAttempts' = recordFailedAttempt(monitorAttempts, ip, reason, now)
    /\ recorded' = Put(recorded, ip, Append(Get(recorded, ip, <<>>), now))
    /\ UNCHANGED <<now, rlVars, secVars, users, response, roleResponse, bruteForce, procs>>

CheckBruteForce(ip, maxAttempts, windowMs) ==
    /\ LET r == checkBruteForce(monitorAttempts, ip, maxAttempts, windowMs, now)
       IN /\ monitorAttempts' = r.failedAttempts
          /\ bruteForce' = IF r.result THEN "yes" ELSE "no"
    /\ UNCHANGED <<now, reqsLeft, rlVars, secVars, users, response, roleResponse,
                   recorded, procs>>

(***************************************************************************)
(* The monitor specification: failures recorded for ip1 (past the          *)
(* retention cap) and for ip2 while the clock advances, and brute-force    *)
(* checks of both keys.                                                    *)
(***************************************************************************)
MaxRecordsMonitor == 22    \* failures recorded for ip1 in one run
MaxRecordsOther == 1       \* failures recorded for ip2 in one run
MaxClockMonitor == 1       \* ticks the clock may advance
MaxAttempts == 21          \* largest maxAttempts a caller passes
MaxWindowMonitor == 2      \* largest windowMs a caller passes, in ticks

InitIdle ==
    /\ policies = <<>>
    /\ InitRLVars
    /\ InitSecVars
    /\ users = <<>>
    /\ response = NoResponse
    /\ roleResponse = NoResponse
    /\ InitMonitorVars
    /\ procs = EmptyMap

\* The thresholds the checks of a run pass: the default and the largest
\* (the claims below are stated for every threshold up to the largest).
Thresholds == {BruteForceThreshold, MaxAttempts}

InitMonitor ==
    /\ now = Epoch
    /\ reqsLeft = MaxRecordsMonitor
    /\ InitIdle

TickMonitor ==
    /\ Advance(1, Epoch + MaxClockMonitor)
    /\ UNCHANGED <<reqsLeft, rlVars, secVars, users, response, roleResponse, smVars, procs>>

NextMonitor ==
    \/ Spend /\ RecordFailedAttempt("ip1", "LOGIN_FAILED")
    \/ /\ Len(Get(recorded, "ip2", <<>>)) < MaxRecordsOther
       /\ RecordFailedAttempt("ip2", "LOGIN_FAILED")
       /\ UNCHANGED reqsLeft
    \/ \E ip \in Keys, m \in Thresholds, w \in {1, MaxWindowMonitor} :
          CheckBruteForce(ip, m, w)
    \/ TickMonitor

SpecMonitor == InitMonitor /\ [][NextMonitor]_vars

\* Failures recorded for the key (evicted or not) that lie in the trailing window.
RecordedInWindow(ip, windowMs) ==
    Len(SelectSeq(Get(recorded, ip, <<>>), LAMBDA ts : now - ts < windowMs))

\* Failures in the key's log that lie in the trailing window.
LoggedInWindow(ip, windowMs) ==
    Cardinality({i \in 1..Len(Get(monitorAttempts, ip, <<>>)) :
                    now - monitorAttempts[ip][i].timestamp < windowMs})

BruteForceAnswer(ip, m, w) == checkBruteForce(monitorAttempts, ip, m, w, now)

(***************************************************************************)
(* C5, as claimed: for every key and every threshold maxAttempts >= 1,     *)
(* once maxAttempts or more failures recorded for the key lie in the       *)
(* trailing window, isBruteForce(key, maxAttempts, windowMs) is true.      *)
(***************************************************************************)
C5_AnyThreshold ==
    \A ip \in Keys, w \in 1..MaxWindowMonitor :
        LET n == RecordedInWindow(ip, w) IN
        \A m \in 1..MaxAttempts :
            n >= m => BruteForceAnswer(ip, m, w).result

(***************************************************************************)
(* C5, amended: the same for thresholds up to the retention cap of 20;     *)
(* for every threshold the answer is false when fewer than maxAttempts     *)
(* logged failures lie in the window, and checkBruteForce leaves the log   *)
(* as it was.                                                              *)
(***************************************************************************)
C5_ThresholdWithinCap ==
    \A ip \in Keys, w \in 1..MaxWindowMonitor :
        LET n == RecordedInWindow(ip, w)
            logged == LoggedInWindow(ip, w)
        IN \A m \in 1..MaxAttempts :
              LET answer == BruteForceAnswer(ip, m, w) IN
              /\ (m <= 20 /\ n >= m) => answer.result
              /\ logged < m => ~answer.result
              /\ answer.failedAttempts = monitorAttempts

\* 21 failures recorded for a key inside the window, the oldest evicted, and
\* a check has answered yes.
C5_Witness ==
    /\ RecordedInWindow("ip1", 2) = 21
    /\ Len(monitorAttempts["ip1"]) = 20
    /\ now > Epoch
    /\ bruteForce = "yes"

(***************************************************************************)
(* part_000: authenticateToken(req, res, next), the middleware that        *)
(* provisions.  It awaits the store up to three times; procs holds every   *)
(* request served: its position (pc), the row its email lookup found, the  *)
(* store as it was when the request arrived (before) and its response.     *)
(***************************************************************************)
Simple == "part_000"

Enhanced == "auth.js"

Arrived(impl, req, pc) ==
    [impl |-> impl, req |-> req, pc |-> pc, before |-> users, existingId |-> 0,
     status |-> 0, code |-> None, user |-> NoUser]

Answered(proc, status, code, user) ==
    [proc EXCEPT !.pc = "done", !.status = status, !.code = code, !.user = user]

\* part_000: the catch block of authenticateToken.
simpleCatch(errorCode) ==
    CASE errorCode = "auth/id-token-expired" -> "TOKEN_EXPIRED"
      [] errorCode = "auth/argument-error" -> "TOKEN_INVALID"
      [] errorCode = "auth/id-token-revoked" -> "TOKEN_REVOKED"
      [] OTHER -> "AUTH_FAILED"

\* userData.email || decodedToken.email
LookupEmail(req) == IF req.email # None THEN req.email ELSE req.tokenEmail

NextProc == Cardinality(DOMAIN procs) + 1

InFlight == {p \in DOMAIN procs : procs[p].pc # "done"}

\* part_000:8-42  the token checks, auth.verifyIdToken and auth.getUser: no
\* step of another request can be told apart between them, the store is not
\* touched.
SimpleBegin(req) ==
    /\ LET proc == Arrived(Simple, req, "selectUid")
           v == verifyIdToken(req, FALSE)
       IN procs' = Put(procs, NextProc,
              IF req.token = <<>>
              THEN Answered(proc, 401, "TOKEN_MISSING", NoUser)
              ELSE IF ~StartsWith(req.token, <<"e", "y", "J">>)
              THEN Answered(proc, 401, "TOKEN_INVALID_FORMAT", NoUser)
              ELSE IF v # Ok
              THEN Answered(proc, 401, simpleCatch(v), NoUser)
              ELSE IF req.getUser # Ok
              THEN Answered(proc, 401, simpleCatch(req.getUser), NoUser)
              ELSE proc)
    /\ UNCHANGED <<now, reqsLeft, rlVars, secVars, users, response, roleResponse, smVars>>

\* part_000:46-58  select by firebase_uid
SimpleSelectUid(p) ==
    /\ procs[p].pc = "selectUid"
    /\ LET proc == procs[p]
           q == SelectByUid(users, proc.req.uid, proc.req.dbFaults)
       IN procs' = Put(procs, p,
              IF q.error \notin {None, "PGRST116"}
              THEN Answered(proc, 401, simpleCatch(None), NoUser)
              ELSE IF q.data # NoRow
              THEN Answered(proc, 200, None, Principal(q.data, proc.req))
              ELSE [proc EXCEPT !.pc = "selectEmail"])
    /\ UNCHANGED <<now, reqsLeft, rlVars, secVars, users, response, roleResponse, smVars>>

\* part_000:62-73, 95-99  select by email and the choice it leads to
SimpleSelectEmail(p) ==
    /\ procs[p].pc = "selectEmail"
    /\ LET proc == procs[p]
           q == SelectByEmail(users, LookupEmail(proc.req), proc.req.dbFaults)
       IN procs' = Put(procs, p,
              IF q.error \notin {None, "PGRST116"}
              THEN Answered(proc, 401, simpleCatch(None), NoUser)
              ELSE IF q.data # NoRow /\ Unlinked(q.data)
              THEN [proc EXCEPT !.pc = "link", !.existingId = q.data.id]
              ELSE IF q.data # NoRow
              THEN Answered(proc, 401, simpleCatch(None), NoUser)
              ELSE [proc EXCEPT !.pc = "insert"])
    /\ UNCHANGED <<now, reqsLeft, rlVars, secVars, users, response, roleResponse, smVars>>

\* part_000:77-93  attach the firebase_uid to the row found by email
SimpleLink(p) ==
    /\ procs[p].pc = "link"
    /\ LET proc == procs[p]
           upd == LinkUser(users, proc.existingId, proc.req.uid,
                           LookupEmail(proc.req), proc.req.dbFaults)
       IN /\ users' = upd.users
          /\ procs' = Put(procs, p,
                 IF upd.error # None
                 THEN Answered(proc, 401, simpleCatch(None), NoUser)
                 ELSE Answered(proc, 200, None, Principal(upd.data, proc.req)))
    /\ UNCHANGED <<now, reqsLeft, rlVars, secVars, response, roleResponse, smVars>>

\* part_000:109  role: decodedToken.role || "client"
ProvisionedRole(req) == IF req.role # None THEN req.role ELSE "client"

\* part_000:103-121  insert the new row
SimpleInsert(p) ==
    /\ procs[p].pc = "insert"
    /\ LET proc == procs[p]
           ins == InsertUser(users, proc.req.uid, LookupEmail(proc.req),
                             ProvisionedRole(proc.req), proc.req.dbFaults)
       IN /\ users' = ins.users
          /\ procs' = Put(procs, p,
                 IF ins.error # None
                 THEN Answered(proc, 401, simpleCatch(None), NoUser)
                 ELSE Answered(proc, 200, None, Principal(ins.data, proc.req)))
    /\ UNCHANGED <<now, reqsLeft, rlVars, secVars, response, roleResponse, smVars>>

\* auth.js: a protected request, served without interruption and entered in
\* procs with its response.
EnhancedRequest(req) ==
    /\ ProtectedRequest(req)
    /\ procs' = Put(procs, NextProc,
           Answered(Arrived(Enhanced, req, "done"),
                    response'.status, response'.code, response'.user))
    /\ UNCHANGED reqsLeft

(***************************************************************************)
(* The reconciliation specification: requests with a verifiable token      *)
(* served one after the other by one of the two middlewares, from a store  *)
(* that is empty or holds one account, linked or not, active or not.       *)
(***************************************************************************)
MaxRuns == 2               \* requests served in one run

StoredUser(uid, role, suspended) ==
    [id |-> 1, firebase_uid |-> uid, email |-> "a@x", role |-> role,
     is_suspended |-> suspended, last_login |-> 0]

Stores ==
    {<<>>} \cup {<<StoredUser(uid, role, suspended)>> :
                    uid \in {None, "u1", "u2"}, role \in {"client", "inactive"},
                    suspended \in BOOLEAN}

\* Requests of the account u1: its email, a custom role claim or none,
\* whether the provider has disabled the account, and whether the store
\* fails the update that links a record.
RequestsRecon ==
    {[Request("ip1", GoodToken, "good", "u1", email)
         EXCEPT !.role = role, !.disabled = disabled, !.dbFaults = faults] :
        email \in {"a@x", "b@x"}, role \in {None, "admin"}, disabled \in BOOLEAN,
        faults \in {{}, {"link"}}}

InitRecon ==
    /\ now = Epoch
    /\ reqsLeft = 0
    /\ policies = <<>>
    /\ InitRLVars
    /\ InitSecVars
    /\ users \in Stores
    /\ response = NoResponse
    /\ roleResponse = NoResponse
    /\ InitMonitorVars
    /\ procs = EmptyMap

\* One deployment runs one of the two middlewares.
Deployed(impl) == \A p \in DOMAIN procs : procs[p].impl = impl

NextRecon ==
    \/ \E req \in RequestsRecon :
          /\ NextProc <= MaxRuns
          /\ InFlight = {}
          /\ Deployed(Simple)
          /\ SimpleBegin(req)
    \/ \E p \in DOMAIN procs : SimpleSelectUid(p)
    \/ \E p \in DOMAIN procs : SimpleSelectEmail(p)
    \/ \E p \in DOMAIN procs : SimpleLink(p)
    \/ \E p \in DOMAIN procs : SimpleInsert(p)
    \/ \E req \in RequestsRecon :
          /\ NextProc <= MaxRuns
          /\ Deployed(Enhanced)
          /\ EnhancedRequest(req)

SpecRecon == InitRecon /\ [][NextRecon]_vars

(***************************************************************************)
(* The race specification: up to MaxRacers requests of part_000 in flight  *)
(* at once, their store calls interleaved.                                 *)
(***************************************************************************)
MaxRacers == 2             \* requests served in one run

RequestsRace ==
    {Request(ip, GoodToken, "good", "u1", email) :
        ip \in Keys, email \in {"a@x", "b@x"}}

NextRace ==
    \/ \E req \in RequestsRace : NextProc <= MaxRacers /\ SimpleBegin(req)
    \/ \E p \in DOMAIN procs : SimpleSelectUid(p)
    \/ \E p \in DOMAIN procs : SimpleSelectEmail(p)
    \/ \E p \in DOMAIN procs : SimpleLink(p)
    \/ \E p \in DOMAIN procs : SimpleInsert(p)

SpecRace == InitRecon /\ [][NextRace]_vars

\* The store as request p left it, when requests are served one at a time.
After(p) == IF p + 1 \in DOMAIN procs THEN procs[p + 1].before ELSE users

Finished(p) == p \in DOMAIN procs /\ procs[p].pc = "done"

\* The rows of the store the request arrived at that carry its external id,
\* and those that carry its email.
ByUid(proc) == {r \in Rows(proc.before) : r.firebase_uid = proc.req.uid}

ByEmail(proc) == {r \in Rows(proc.before) : r.email = LookupEmail(proc.req)}

\* A verified identity: the token verifies and the provider's account is in use.
Verified(proc) == proc.req.tokenState = "good" /\ ~proc.req.disabled

LastRow(us) == us[Len(us)]

(***************************************************************************)
(* C7: two runs of reconciliation in sequence with the same (externalId,   *)
(* email) pair, from a store with no matching record, create exactly one   *)
(* user record, and both return a Principal with the same internal id.     *)
(***************************************************************************)
C7_TwiceCreatesOne ==
    \A p \in DOMAIN procs :
        (/\ Finished(p) /\ Finished(p + 1)
         /\ Verified(procs[p]) /\ Verified(procs[p + 1])
         /\ procs[p].req.uid = procs[p + 1].req.uid
         /\ LookupEmail(procs[p].req) = LookupEmail(procs[p + 1].req)
         /\ ByUid(procs[p]) = {} /\ ByEmail(procs[p]) = {})
        => /\ Len(After(p + 1)) = Len(procs[p].before) + 1
           /\ procs[p].status = 200 /\ procs[p + 1].status = 200
           /\ procs[p].user # NoUser
           /\ procs[p + 1].user.uid = procs[p].user.uid

(***************************************************************************)
(* C9, as claimed: a valid token whose external id matches no record and   *)
(* whose email matches a record without external id gets that record       *)
(* linked, no record created, and the request proceeds with a Principal    *)
(* of that record's id and unchanged role.                                 *)
(***************************************************************************)
LinksAndProceeds(p, row) ==
    LET proc == procs[p]
        after == After(p)
    IN /\ Len(after) = Len(proc.before)
       /\ after[row.id].firebase_uid = proc.req.uid
       /\ after[row.id].role = row.role
       /\ proc.status = 200
       /\ proc.user # NoUser
       /\ proc.user.uid = row.id
       /\ proc.user.role = row.role

C10_ProvisionsClient ==
    \A p \in DOMAIN procs :
        (/\ Finished(p)
         /\ Verified(procs[p])
         /\ ByUid(procs[p]) = {} /\ ByEmail(procs[p]) = {})
        => LET after == After(p) IN
           /\ Len(after) = Len(procs[p].before) + 1
           /\ LastRow(after).firebase_uid = procs[p].req.uid
           /\ LastRow(after).role = "client"
           /\ procs[p].status = 200
           /\ procs[p].user # NoUser
           /\ procs[p].user.uid = LastRow(after).id

(***************************************************************************)
(* C8: two first logins of the same unprovisioned external id and email    *)
(* that run concurrently insert exactly one record and both succeed with   *)
(* it.                                                                     *)
(***************************************************************************)
C8_RaceBothSucceed ==
    \A p, q \in DOMAIN procs :
        (/\ p < q
         /\ Finished(p) /\ Finished(q)
         /\ procs[p].req.uid = procs[q].req.uid
         /\ LookupEmail(procs[p].req) = LookupEmail(procs[q].req)
         /\ ByUid(procs[p]) = {} /\ ByEmail(procs[p]) = {}
         /\ ByUid(procs[q]) = {} /\ ByEmail(procs[q]) = {})
        => /\ Len(users) = Len(procs[p].before) + 1
           /\ procs[p].status = 200 /\ procs[q].status = 200
           /\ procs[p].user # NoUser
           /\ procs[q].user.uid = procs[p].user.uid

(***************************************************************************)
(* C11: when the email lookup finds a record that already carries a        *)
(* different external id, reconciliation fails with an identity-conflict   *)
(* condition of its own (neither the user-not-found nor the generic        *)
(* authentication failure), no Principal is attached and the record keeps  *)
(* its external id.                                                        *)
(***************************************************************************)
Conflicting(proc) ==
    {r \in ByEmail(proc) : ~Unlinked(r) /\ r.firebase_uid # proc.req.uid}

C11_ConflictIsDistinct ==
    \A p \in DOMAIN procs :
        (/\ Finished(p)
         /\ Verified(procs[p])
         /\ procs[p].req.dbFaults = {}
         /\ ByUid(procs[p]) = {})
        => \A row \in Conflicting(procs[p]) :
              /\ procs[p].status # 200
              /\ procs[p].user = NoUser
              /\ After(p)[row.id].firebase_uid = row.firebase_uid
              /\ procs[p].code \notin {"USER_NOT_FOUND_DB", "USER_NOT_FOUND", "AUTH_FAILED"}

(***************************************************************************)
(* C12: whenever the record resolved for a valid token has role            *)
(* "inactive" or is suspended, authenticateToken answers 403, attaches no  *)
(* Principal and does not pass the request on.                             *)
(***************************************************************************)
\* The record reconciliation resolves: the one carrying the external id,
\* else the unlinked one carrying the email.
Resolved(proc) ==
    IF ByUid(proc) # {} THEN ByUid(proc) ELSE {r \in ByEmail(proc) : Unlinked(r)}

C12_InactiveRejected ==
    \A p \in DOMAIN procs :
        (/\ Finished(p)
         /\ Verified(procs[p])
         /\ procs[p].req.dbFaults = {})
        => \A row \in Resolved(procs[p]) :
              (row.role = "inactive" \/ row.is_suspended)
                  => /\ procs[p].status = 403
                     /\ procs[p].user = NoUser

(***************************************************************************)
(* part_000: optionalAuth(req, res, next).  It reads the store once.       *)
(***************************************************************************)
simpleOptionalAuth(us, req) ==
    LET skip(calls) ==
            [users |-> us, user |-> NoUser, verifyCalls |-> calls, next |-> TRUE]
    IN
    IF req.token = <<>>
    THEN skip(0)
    ELSE IF verifyIdToken(req, FALSE) # Ok
    THEN skip(1)
    ELSE IF req.getUser # Ok
    THEN skip(1)
    ELSE LET q == SelectByUid(us, req.uid, req.dbFaults) IN
    IF q.data # NoRow
    THEN [users |-> us,
          user |-> [uid |-> q.data.id, firebase_uid |-> req.uid,
                    email |-> req.email, role |-> q.data.role],
          verifyCalls |-> 1, next |-> TRUE]
    ELSE skip(1)

\* A request to a public route behind optionalAuth of part_000.
SimpleOptionalRequest(req) ==
    /\ LET a == simpleOptionalAuth(users, req)
       IN /\ users' = a.users
          /\ response' = [handler |-> "optionalAuth", impl |-> Simple, req |-> req,
                          status |-> 200, code |-> None,
                          stage |-> "handler", user |-> a.user,
                          verifyCalls |-> a.verifyCalls, next |-> a.next,
                          before |-> users, flip |-> ~response.flip]
    /\ UNCHANGED <<now, rlVars, secVars, roleResponse, smVars, procs>>

\* A request to a public route behind optionalAuth of auth.js, with the
\* store it found.
EnhancedOptionalRequest(req) ==
    /\ OptionalRequest(req)
    /\ procs' = Put(procs, NextProc, Arrived(Enhanced, req, "done"))

(***************************************************************************)
(* The optional-authentication specification: one request to a public     *)
(* route, with or without a token, the provider and the store answering    *)
(* or failing, from every store of Stores.                                 *)
(***************************************************************************)
ProviderAnswers == {"good", "expired", "garbage", "unreachable", "revoked"}

RequestsOpt ==
    {[Request("ip1", token, tokenState, "u1", "a@x")
         EXCEPT !.getUser = getUser, !.dbFaults = faults] :
        token \in {<<>>, GoodToken, NotAJwt}, tokenState \in ProviderAnswers,
        getUser \in {Ok, "auth/user-not-found"},
        faults \in {{}, {"selectUid"}}}

InitOpt ==
    /\ now = Epoch
    /\ reqsLeft = 1
    /\ policies = <<>>
    /\ InitRLVars
    /\ InitSecVars
    /\ users \in Stores
    /\ response = NoResponse
    /\ roleResponse = NoResponse
    /\ InitMonitorVars
    /\ procs = EmptyMap

NextOpt ==
    \/ Spend /\ \E req \in RequestsOpt : SimpleOptionalRequest(req)
    \/ Spend /\ \E req \in RequestsOpt : EnhancedOptionalRequest(req)

SpecOpt == InitOpt /\ [][NextOpt]_vars

(***************************************************************************)
(* C13: optionalAuth never answers with an error: every request is passed  *)
(* on to the handler, and a Principal is attached only if token            *)
(* validation and identity reconciliation both succeeded (the provider     *)
(* verified an unrevoked token and knows the account, and the record       *)
(* resolved is neither inactive nor suspended).                            *)
(***************************************************************************)
\* The store the request found.
Found == IF Has(response, "before") THEN response.before ELSE procs[1].before

Reconciled(req) ==
    \E r \in Rows(Found) :
        /\ r.firebase_uid = req.uid \/ (Unlinked(r) /\ r.email = req.email)
        /\ r.role # "inactive"
        /\ ~r.is_suspended

C13_OptionalNeverFails ==
    (response # NoResponse /\ response.handler = "optionalAuth")
    => /\ response.next
       /\ response.status = 200
       /\ response.user # NoUser
            => /\ response.req.tokenState = "good"
               /\ response.req.getUser = Ok
               /\ Reconciled(response.req)

(***************************************************************************)
(* The retry specification: one limiter of each implementation in front    *)
(* of a route, with the same (max, windowMs), while the clock advances.    *)
(***************************************************************************)
MaxClockRetry == 4         \* ticks the clock may advance
MaxRequestsRetry == 5      \* requests served in one run
MaxWindowRetry == 3        \* largest configured windowMs, in ticks

InitRetry ==
    /\ now = Epoch
    /\ reqsLeft = MaxRequestsRetry
    /\ \E m \in 1..2, w \in 1..MaxWindowRetry :
          policies = <<[max |-> m, windowMs |-> w]>>
    /\ InitRLVars
    /\ InitSecVars
    /\ users = <<>>
    /\ response = NoResponse
    /\ roleResponse = NoResponse
    /\ InitMonitorVars
    /\ procs = EmptyMap

TickRetry ==
    /\ Advance(1, Epoch + MaxClockRetry)
    /\ UNCHANGED <<reqsLeft, rlVars, secVars, users, response, roleResponse, smVars, procs>>

NextRetry ==
    \/ \E k \in Keys : Spend /\ RateLimitRequest(k)
    \/ \E k \in Keys : Spend /\ CreateRateLimitRequest(k)
    \/ TickRetry

SpecRetry == InitRetry /\ [][NextRetry]_vars

(***************************************************************************)
(* C16: every rate-limit rejection, of rateLimit and of createRateLimit,   *)
(* carries retryAfter = the whole seconds, rounded up, from the rejected   *)
(* request until the key's window resets; so it lies between 0 and         *)
(* ceil(windowMs / 1000).                                                  *)
(***************************************************************************)
\* The least number of whole seconds that cover `ticks`.
WholeSecondsUp(ticks) ==
    CHOOSE sec \in 0..ticks :
        /\ sec * TicksPerSecond >= ticks
        /\ \A less \in 0..(sec - 1) : less * TicksPerSecond < ticks

C16_RetryAfterIsTimeLeft ==
    (rlResponse # NoResponse /\ rlResponse.status = 429)
    => /\ rlResponse.retryAfter =
             WholeSecondsUp(rlResponse.window.resetTime - rlResponse.at)
       /\ rlResponse.retryAfter >= 0
       /\ rlResponse.retryAfter <= WholeSecondsUp(policies[1].windowMs)

(***************************************************************************)
(* The production server of notificationRoutes.js: the middleware Express  *)
(* runs for a request, in app.use order and then the route's own, until    *)
(* one of them sends the response.  policies holds the (max, windowMs) of  *)
(* globalRateLimit, strictRateLimit and the router's applyRateLimit.       *)
(***************************************************************************)
\* helmet({contentSecurityPolicy, hsts, referrerPolicy, ...})
HelmetHeaders ==
    {"Content-Security-Policy", "Strict-Transport-Security", "Referrer-Policy",
     "X-Content-Type-Options", "X-Frame-Options"}

\* The res.setHeader calls of the security headers middleware.
CustomHeaders ==
    {"X-Content-Type-Options", "X-Frame-Options", "X-XSS-Protection",
     "Referrer-Policy", "Permissions-Policy"}

\* Mutant: the limiter is mounted ahead of the blacklist.
AppChain_LimiterFirst ==
    <<"helmet", "createSecurityMiddleware", "globalRateLimit", "ipBlacklist",
      "securityHeaders">>

\* Mutant: the headers are mounted behind the blacklist and the limiter.
AppChain_HeadersLate ==
    <<"ipBlacklist", "globalRateLimit", "helmet", "createSecurityMiddleware",
      "securityHeaders">>

\* notificationRoutes.js:75-195  the app.use(...) calls ahead of the routes
AppChain ==
    <<"helmet", "createSecurityMiddleware", "ipBlacklist", "globalRateLimit",
      "securityHeaders">>

\* app.use("/auth", strictRateLimit, authRoutes); router.put("/profile", ...)
ProfileRoute ==
    [chain |-> AppChain \o <<"strictRateLimit", "routeRateLimit",
                             "authenticateToken", "handler">>,
     allowedRoles |-> <<>>]

\* app.use("/widgets", widgetRouter); widgetRouter.post("/create", ...)
WidgetRoute ==
    [chain |-> AppChain \o <<"authenticateToken", "requireRole", "handler">>,
     allowedRoles |-> <<"client", "business_owner">>]

\* app.use("/notifications", notificationRouter); a requireRole(["admin"]) route
AdminRoute ==
    [chain |-> AppChain \o <<"authenticateToken", "requireRole", "handler">>,
     allowedRoles |-> <<"admin">>]

Routes == {ProfileRoute, WidgetRoute, AdminRoute}

\* The policy of a limiter stage.
PolicyOf(stage) ==
    CASE stage = "globalRateLimit" -> policies[1]
      [] stage = "strictRateLimit" -> policies[2]
      [] stage = "routeRateLimit" -> policies[3]

Send(st, status, code) == [st EXCEPT !.sent = TRUE, !.status = status, !.code = code]

\* One middleware of the chain serving the request.
RunStage(st, stage, req, route, t) ==
    CASE stage = "helmet" ->
            [st EXCEPT !.headers = @ \cup HelmetHeaders]
      [] stage = "createSecurityMiddleware" ->
            [st EXCEPT !.headers = @ \cup HelmetHeaders \cup CustomHeaders]
      [] stage = "securityHeaders" ->
            [st EXCEPT !.headers = @ \cup CustomHeaders]
      [] stage = "ipBlacklist" ->
            LET b == ipBlacklist(st.blacklistedIPs, st.suspiciousIPs, req.ip)
                after == [st EXCEPT !.blacklistedIPs = b.blacklistedIPs]
            IN IF b.next THEN after ELSE Send(after, b.status, b.code)
      [] stage \in {"globalRateLimit", "strictRateLimit", "routeRateLimit"} ->
            LET r == createRateLimit(Get(st.limiters, stage, EmptyMap), req.ip, t,
                                     PolicyOf(stage).max, PolicyOf(stage).windowMs)
                after == [st EXCEPT !.limiters = Put(@, stage, r.store),
                                    !.retryAfter = r.retryAfter]
            IN IF r.next THEN after ELSE Send(after, 429, "RATE_LIMIT_EXCEEDED")
      [] stage = "authenticateToken" ->
            LET a == authenticateToken(st.failedAttempts, st.suspiciousIPs,
                                       st.users, req, t)
                after == [st EXCEPT !.failedAttempts = a.failedAttempts,
                                    !.suspiciousIPs = a.suspiciousIPs,
                                    !.users = a.users,
                                    !.user = a.user,
                                    !.verifyCalls = a.verifyCalls]
            IN IF a.next THEN after ELSE Send(after, a.status, a.code)
      [] stage = "requireRole" ->
            LET r == requireRole(st.user, route.allowedRoles, FALSE)
            IN IF r.next THEN st ELSE Send(st, r.status, r.code)
      [] stage = "handler" ->
            Send(st, 200, None)

\* Express: each middleware runs when the one before it called next().
RECURSIVE RunChain(_, _, _, _, _)
RunChain(st, req, route, t, i) ==
    IF st.sent \/ i > Len(route.chain)
    THEN st
    ELSE RunChain([RunStage(st, route.chain[i], req, route, t)
                      EXCEPT !.stages = Append(@, route.chain[i])],
                  req, route, t, i + 1)

\* One request to a route of the production server.
PipelineRequest(req, route) ==
    /\ LET st == RunChain([blacklistedIPs |-> blacklistedIPs,
                           suspiciousIPs |-> suspiciousIPs,
                           failedAttempts |-> failedAttempts,
                           users |-> users, limiters |-> limiters,
                           headers |-> {}, user |-> NoUser, verifyCalls |-> 0,
                           retryAfter |-> 0, stages |-> <<>>,
                           sent |-> FALSE, status |-> 0, code |-> None],
                          req, route, now, 1)
       IN /\ blacklistedIPs' = st.blacklistedIPs
          /\ suspiciousIPs' = st.suspiciousIPs
          /\ failedAttempts' = st.failedAttempts
          /\ everFlagged' = everFlagged \cup Flagged(st.suspiciousIPs)
          /\ users' = st.users
          /\ limiters' = st.limiters
          /\ response' = [handler |-> "pipeline", req |-> req, route |-> route,
                          status |-> st.status, code |-> st.code,
                          stages |-> st.stages, headers |-> st.headers,
                          user |-> st.user, verifyCalls |-> st.verifyCalls,
                          flip |-> ~response.flip]
    /\ UNCHANGED <<now, policies, rateLimitStore, rlResponse, winOpened, winSeen,
                   roleResponse, smVars, procs>>

(***************************************************************************)
(* The pipeline specification: requests of one key, with and without a     *)
(* token, to three routes of the production server, the key flagged        *)
(* by earlier failures or not, while the clock advances.                   *)
(***************************************************************************)
GlobalMax == 3             \* max of globalRateLimit
StrictMax == 2             \* max of strictRateLimit
RouteMax == 1              \* max of the router's applyRateLimit
MaxWindowPipe == 2         \* windowMs of the three, in ticks
MaxClockPipe == 1          \* ticks the clock may advance
MaxRequestsPipe == 4       \* requests served in one run

RequestsPipe ==
    {Request("ip1", <<>>, "good", "u1", "a@x"),
     Request("ip1", GoodToken, "good", "u1", "a@x"),
     Request("ip1", GoodToken, "good", "u2", "b@x")}

\* The log and the score that failures leave behind: RetentionCap entries
\* and a score past the ceiling.
FlaggedLog ==
    [ip \in {"ip1"} |-> [i \in 1..RetentionCap |->
                            [timestamp |-> Epoch, reason |-> "NO_TOKEN"]]]

FlaggedScore == [ip \in {"ip1"} |-> SuspicionCeiling + 1]

InitPipeline ==
    /\ now = Epoch
    /\ reqsLeft = MaxRequestsPipe
    /\ policies = <<[max |-> GlobalMax, windowMs |-> MaxWindowPipe],
                    [max |-> StrictMax, windowMs |-> MaxWindowPipe],
                    [max |-> RouteMax, windowMs |-> MaxWindowPipe]>>
    /\ InitRLVars
    /\ \/ InitSecVars
       \/ /\ failedAttempts = FlaggedLog
          /\ suspiciousIPs = FlaggedScore
          /\ blacklistedIPs = {}
          /\ everFlagged = {"ip1"}
    /\ users = <<KnownUser>>
    /\ response = NoResponse
    /\ roleResponse = NoResponse
    /\ InitMonitorVars
    /\ procs = EmptyMap

TickPipeline ==
    /\ Advance(1, Epoch + MaxClockPipe)
    /\ UNCHANGED <<reqsLeft, rlVars, secVars, users, response, roleResponse, smVars, procs>>

NextPipeline ==
    \/ Spend /\ \E req \in RequestsPipe, route \in Routes : PipelineRequest(req, route)
    \/ TickPipeline

SpecPipeline == InitPipeline /\ [][NextPipeline]_vars

(***************************************************************************)
(* C14: a request runs the stages in the order blacklist check, global     *)
(* rate limit, route rate limit, token validation and reconciliation,      *)
(* access control, handler, and none after the stage that rejected it: a   *)
(* request the blacklist rejects consumes no rate-limit budget, and one    *)
(* the blacklist or a limiter rejects causes no provider call and no       *)
(* change of a user record (nor does one that token validation rejects).   *)
(***************************************************************************)
StageRank(stage) ==
    CASE stage = "ipBlacklist" -> 1
      [] stage = "globalRateLimit" -> 2
      [] stage \in {"strictRateLimit", "routeRateLimit"} -> 3
      [] stage = "authenticateToken" -> 4
      [] stage = "requireRole" -> 5
      [] stage = "handler" -> 6
      [] OTHER -> 0

LimiterStages == {"globalRateLimit", "strictRateLimit", "routeRateLimit"}

ValidationCodes ==
    {"TOKEN_MISSING", "TOKEN_INVALID_FORMAT", "TOKEN_EXPIRED", "TOKEN_REVOKED",
     "TOKEN_INVALID", "TOKEN_CLAIMS_INVALID"}

LastStage(r) == r.stages[Len(r.stages)]

C14_StagesInOrder ==
    [][response'.flip # response.flip =>
          LET r == response' IN
          /\ \A i, j \in 1..Len(r.stages) :
                (i < j /\ StageRank(r.stages[i]) > 0 /\ StageRank(r.stages[j]) > 0)
                    => StageRank(r.stages[i]) <= StageRank(r.stages[j])
          /\ (r.status = 200) <=> (LastStage(r) = "handler")
          /\ r.status # 200 => \A i \in 1..Len(r.stages) : r.stages[i] # "handler"
          /\ (r.status # 200 /\ LastStage(r) = "ipBlacklist")
                => /\ limiters' = limiters
                   /\ r.verifyCalls = 0
                   /\ users' = users
          /\ (r.status # 200 /\ LastStage(r) \in LimiterStages)
                => /\ r.status = 429
                   /\ r.verifyCalls = 0
                   /\ users' = users
                   /\ failedAttempts' = failedAttempts
          /\ r.code \in ValidationCodes => users' = users
    ]_vars

\* The router's limiter rejected a request with a valid token: the blacklist,
\* the global and the mount's limiter had let it through.
C14_Witness ==
    /\ response # NoResponse
    /\ response.status = 429
    /\ response.req.token = GoodToken
    /\ response.stages = <<"helmet", "createSecurityMiddleware", "ipBlacklist",
                           "globalRateLimit", "securityHeaders", "strictRateLimit",
                           "routeRateLimit">>
    /\ blacklistedIPs = {}

(***************************************************************************)
(* C15: every response the pipeline sends, from the handler or from the    *)
(* stage that rejected the request, carries the hardening headers.         *)
(***************************************************************************)
HardeningHeaders ==
    {"X-Content-Type-Options", "X-Frame-Options", "X-XSS-Protection",
     "Referrer-Policy", "Permissions-Policy", "Strict-Transport-Security",
     "Content-Security-Policy"}

C17_FlaggedGetsBlacklisted ==
    (response # NoResponse /\ response.wasFlagged) =>
        /\ response.status = 403
        /\ response.code = "IP_BLACKLISTED"

(***************************************************************************)
(* The claims specification: one protected request whose token the         *)
(* provider verifies or rejects, with every combination of exp and iat     *)
(* around the limits and of audience and issuer present or not, sent       *)
(* after the clock has advanced.                                           *)
(***************************************************************************)
MaxClockClaims == 3        \* ticks the clock may advance

RequestsClaims ==
    {[Request("ip1", GoodToken, tokenState, "u1", "a@x")
         EXCEPT !.expIn = expIn, !.iatIn = iatIn, !.aud = aud, !.iss = iss] :
        tokenState \in ProviderAnswers, expIn \in -1..2, iatIn \in 59..62,
        aud \in BOOLEAN, iss \in BOOLEAN}

InitClaims ==
    /\ now = Epoch
    /\ reqsLeft = 1
    /\ policies = <<>>
    /\ InitRLVars
    /\ InitSecVars
    /\ users = <<KnownUser>>
    /\ response = NoResponse
    /\ roleResponse = NoResponse
    /\ InitMonitorVars
    /\ procs = EmptyMap

TickClaims ==
    /\ Advance(1, Epoch + MaxClockClaims)
    /\ UNCHANGED <<reqsLeft, rlVars, secVars, users, response, roleResponse, smVars, procs>>

NextClaims ==
    \/ Spend /\ \E req \in RequestsClaims : ProtectedRequest(req) /\ UNCHANGED procs
    \/ TickClaims

SpecClaims == InitClaims /\ [][NextClaims]_vars

(***************************************************************************)
(* C18: for a token the provider has verified, authenticateToken answers   *)
(* 401 TOKEN_CLAIMS_INVALID exactly when exp <= now, or iat > now + 60 s,  *)
(* or the audience or the issuer claim is missing or empty; a provider     *)
(* error never gets this code.                                             *)
(***************************************************************************)
\* The instants of exp and iat, in ticks.
ExpAt(req) == (EpochSeconds + req.expIn) * TicksPerSecond

IatAt(req) == (EpochSeconds + req.iatIn) * TicksPerSecond

ClaimsInvalid(req, t) ==
    \/ ExpAt(req) <= t
    \/ IatAt(req) > t + 60 * TicksPerSecond
    \/ ~req.aud
    \/ ~req.iss

C18_ClaimsInvalidExactly ==
    (response # NoResponse /\ response.stage # "ipBlacklist") =>
        /\ response.req.tokenState = "good"
              => /\ (response.code = "TOKEN_CLAIMS_INVALID")
                        <=> ClaimsInvalid(response.req, response.at)
                 /\ response.code = "TOKEN_CLAIMS_INVALID" => response.status = 401
        /\ response.req.tokenState # "good"
              => response.code # "TOKEN_CLAIMS_INVALID"

\* A token that expires within the running second is rejected for its claims.
C18_Witness ==
    /\ response # NoResponse
    /\ response.code = "TOKEN_CLAIMS_INVALID"
    /\ response.req.expIn = 1
    /\ response.req.iatIn = 60
    /\ response.req.aud
    /\ response.req.iss
    /\ response.at > Epoch

(***************************************************************************)
(* The upstream specification: one request, to a protected or to a public  *)
(* route of either deployment, while the provider answers, rejects the     *)
(* token or cannot be reached and the store answers or fails, from every   *)
(* store of Stores.                                                        *)
(***************************************************************************)
Idle == procs = EmptyMap /\ response = NoResponse

NextUpstream ==
    \/ \E req \in RequestsOpt : Idle /\ SimpleBegin(req)
    \/ \E p \in DOMAIN procs : SimpleSelectUid(p)
    \/ \E p \in DOMAIN procs : SimpleSelectEmail(p)
    \/ \E p \in DOMAIN procs : SimpleLink(p)
    \/ \E p \in DOMAIN procs : SimpleInsert(p)
    \/ \E req \in RequestsOpt : Idle /\ EnhancedRequest(req)
    \/ \E req \in RequestsOpt : Idle /\ SimpleOptionalRequest(req) /\ UNCHANGED reqsLeft
    \/ \E req \in RequestsOpt : Idle /\ EnhancedOptionalRequest(req) /\ UNCHANGED reqsLeft

SpecUpstream == InitRecon /\ [][NextUpstream]_vars

(***************************************************************************)
(* C19: a token the provider has revoked never leads to a Principal being  *)
(* attached to a request, through authenticateToken or through             *)
(* optionalAuth: every verify call asks for revocation checking.           *)
(***************************************************************************)
C19_RevokedNeverPrincipal ==
    /\ (response # NoResponse /\ response.req.tokenState = "revoked")
          => response.user = NoUser
    /\ \A p \in DOMAIN procs :
          (Finished(p) /\ procs[p].impl = Simple /\ procs[p].req.tokenState = "revoked")
              => procs[p].user = NoUser

(***************************************************************************)
(* C20: when the provider or the store fails during authenticateToken for  *)
(* a reason other than rejecting the token or the account (the provider    *)
(* cannot be reached, a query fails), the response status is 500.          *)
(***************************************************************************)
\* The request got as far as the provider and the provider could not be
\* reached, or it got as far as the store and a query failed.
UpstreamFailed(req) ==
    /\ isValidJWTFormat(req.token)
    /\ \/ req.tokenState = "unreachable"
       \/ /\ req.tokenState = "good"
          /\ req.getUser = Ok
          /\ ~req.disabled
          /\ req.dbFaults # {}

C20_UpstreamFailureIs500 ==
    /\ (/\ response # NoResponse
        /\ response.handler = "authenticateToken"
        /\ response.stage # "ipBlacklist"
        /\ UpstreamFailed(response.req))
          => response.status = 500
    /\ \A p \in DOMAIN procs :
          (Finished(p) /\ procs[p].impl = Simple /\ UpstreamFailed(procs[p].req))
              => procs[p].status = 500

(***************************************************************************)
(* The tracking specification: protected requests that fail in every way   *)
(* authenticateToken tells apart, and requests that authenticate, from     *)
(* two keys, with the sweep, while the clock advances in sweep periods;    *)
(* ip1 starts with no failure behind it, one short of the brute-force      *)
(* threshold or one short of a full log.                                   *)
(***************************************************************************)
MaxPeriodsTrack == 3       \* sweep periods the clock may advance
MaxRequestsTrack == 2      \* requests served in one run

\* The tracker after n tokenless requests of one key at time t.
RECURSIVE AfterFailures(_, _, _)
AfterFailures(ip, n, t) ==
    IF n = 0
    THEN [failedAttempts |-> EmptyMap, suspiciousIPs |-> EmptyMap]
    ELSE LET before == AfterFailures(ip, n - 1, t)
         IN trackFailedAttempt(before.failedAttempts, before.suspiciousIPs,
                               ip, "NO_TOKEN", t)

RequestsTrack ==
    {Request(ip, <<>>, "good", "u1", "a@x") : ip \in Keys}
        \cup {Request(ip, GoodToken, "good", "u1", "a@x") : ip \in Keys}
        \cup {Request("ip1", NotAJwt, "good", "u1", "a@x")}
        \cup {Request("ip1", GoodToken, tokenState, "u1", "a@x") :
                 tokenState \in {"expired", "revoked"}}
        \cup {[Request("ip1", GoodToken, "good", "u1", "a@x") EXCEPT !.expIn = 0]}

InitTrack ==
    /\ now = Epoch
    /\ reqsLeft = MaxRequestsTrack
    /\ policies = <<>>
    /\ InitRLVars
    /\ \E n \in {0, BruteForceThreshold - 1, RetentionCap - 1} :
          LET before == AfterFailures("ip1", n, Epoch)
          IN /\ failedAttempts = before.failedAttempts
             /\ suspiciousIPs = before.suspiciousIPs
    /\ blacklistedIPs = {}
    /\ everFlagged = {}
    /\ users = <<KnownUser>>
    /\ response = NoResponse
    /\ roleResponse = NoResponse
    /\ InitMonitorVars
    /\ procs = EmptyMap

TickTrack ==
    /\ Advance(FiveMinutes, Epoch + MaxPeriodsTrack * FiveMinutes)
    /\ UNCHANGED <<reqsLeft, rlVars, secVars, users, response, roleResponse, smVars, procs>>

NextTrack ==
    \/ Spend /\ \E req \in RequestsTrack : ProtectedRequest(req) /\ UNCHANGED procs
    \/ CleanupSecurityData
    \/ TickTrack

SpecTrack == InitTrack /\ [][NextTrack]_vars

(***************************************************************************)
(* C21: a request that authenticateToken rejects as an authentication      *)
(* failure (no token, malformed token, invalid claims, a token the         *)
(* provider rejects) appends exactly one entry, stamped with the time of   *)
(* the request, to the Failed-Attempt Log of the request's key (the oldest *)
(* entry leaving a full log) and changes the log of no other key; a        *)
(* request that authenticates appends no entry to any log.                 *)
(***************************************************************************)
AuthenticationFailures ==
    {"TOKEN_MISSING", "TOKEN_INVALID_FORMAT", "TOKEN_CLAIMS_INVALID",
     "TOKEN_EXPIRED", "TOKEN_REVOKED", "TOKEN_INVALID"}

RejectedStep ==
    /\ response'.flip # response.flip
    /\ response'.handler = "authenticateToken"
    /\ response'.stage = "authenticateToken"
    /\ response'.code \in AuthenticationFailures

LogOf(fa, k) == Get(fa, k, <<>>)

Front(s) == SubSeq(s, 1, Len(s) - 1)

OtherLogsKept(k) ==
    \A j \in Keys \ {k} :
        /\ Has(failedAttempts', j) <=> Has(failedAttempts, j)
        /\ LogOf(failedAttempts', j) = LogOf(failedAttempts, j)

C21_FailureAppendsOne ==
    [][/\ RejectedStep =>
             LET k == response'.req.ip
                 old == LogOf(failedAttempts, k)
                 new == LogOf(failedAttempts', k)
             IN /\ Len(new) >= 1
                /\ new[Len(new)].timestamp = now
                /\ Front(new) = IF Len(old) = RetentionCap THEN Tail(old) ELSE old
                /\ OtherLogsKept(k)
       /\ AuthenticatedStep =>
             \A j \in Keys :
                 LogOf(failedAttempts', j) \in {LogOf(failedAttempts, j), <<>>}]_vars

\* A revoked token of ip1 is rejected while ip2 has a log of its own.
C21_Witness ==
    /\ response # NoResponse
    /\ response.code = "TOKEN_REVOKED"
    /\ response.req.ip = "ip1"
    /\ Has(failedAttempts, "ip2")
    /\ Len(LogOf(failedAttempts, "ip1")) = RetentionCap
    /\ LogOf(failedAttempts, "ip1")[RetentionCap].reason = "auth/id-token-revoked"

(***************************************************************************)
(* C22: a key that is in the Blacklist is in it in every later state,      *)
(* whatever requests are served, whatever sweeps run and however far the   *)
(* clock advances, and every request from it is rejected with 403 and      *)
(* never reaches authenticateToken.                                        *)
(***************************************************************************)
RequestStep == response'.flip # response.flip

C22_BlacklistIsPermanent ==
    [][/\ blacklistedIPs \subseteq blacklistedIPs'
       /\ (RequestStep /\ response'.req.ip \in blacklistedIPs) =>
             /\ response'.status = 403
             /\ response'.stage = "ipBlacklist"
             /\ ~response'.next
             /\ response'.user = NoUser]_vars

\* A blacklisted key whose score the sweep has dropped sends a valid token
\* after the clock has advanced, and is rejected.
C22_Witness ==
    /\ response # NoResponse
    /\ response.req.ip = "ip1"
    /\ response.req.token = GoodToken
    /\ response.code = "IP_BLACKLISTED"
    /\ response.at > Epoch
    /\ "ip1" \in blacklistedIPs
    /\ ~Has(suspiciousIPs, "ip1")

(***************************************************************************)
(* C23: after a sweep at time t every Failed-Attempt Log holds exactly its *)
(* former entries with a timestamp newer than t minus 15 minutes, in the   *)
(* same order, and a key all of whose entries are older has no log left.   *)
(***************************************************************************)
\* In SpecTrack a step that serves no request and leaves the clock alone is
\* a sweep.
SweepStep == response' = response /\ now' = now

Newer(log, t) == SelectSeq(log, LAMBDA a : a.timestamp > t - FifteenMinutes)

C23_SweepKeepsNewer ==
    [][SweepStep =>
          \A k \in Keys :
              /\ LogOf(failedAttempts', k) = Newer(LogOf(failedAttempts, k), now)
              /\ Has(failedAttempts', k)
                    <=> Newer(LogOf(failedAttempts, k), now) # <<>>]_vars

\* ip1, with a log from start-up, failed once more five minutes later, in
\* the only request of the run: the sweep at minute 15 leaves that one entry.
C23_Witness ==
    /\ now = Epoch + 3 * FiveMinutes
    /\ reqsLeft = MaxRequestsTrack - 1
    /\ response # NoResponse
    /\ response.req.ip = "ip1"
    /\ response.at = Epoch + FiveMinutes
    /\ response.hadLog
    /\ response.stage = "authenticateToken"
    /\ LogOf(failedAttempts, "ip1") =
          <<[timestamp |-> Epoch + FiveMinutes, reason |-> "NO_TOKEN"]>>

(***************************************************************************)
(* C24: the sweep drops a key's Suspicion Score only when the key was      *)
(* first flagged more than one hour before the sweep; the score of a key   *)
(* first flagged within the last hour is the same after the sweep as       *)
(* before it.  Within an hour of start-up every score is that recent.      *)
(***************************************************************************)
C24_SweepKeepsRecentScores ==
    [][(SweepStep /\ now - OneHour < Epoch) =>
          \A k \in Keys :
              /\ Has(suspiciousIPs', k) <=> Has(suspiciousIPs, k)
              /\ Get(suspiciousIPs', k, 0) = Get(suspiciousIPs, k, 0)]_vars

(***************************************************************************)
(* C25: a failure recorded for key k appends one entry for k and then      *)
(* raises k's Suspicion Score by exactly 1 if at least 5 of k's logged     *)
(* failures, the new one included, lie within the trailing 15 minutes,     *)
(* and leaves it unchanged otherwise; it puts no key in the Blacklist and  *)
(* changes the log and the score of no other key.                          *)
(***************************************************************************)
InWindow(log, t) == SelectSeq(log, LAMBDA a : t - a.timestamp < FifteenMinutes)

C25_ScoreRaisedAtThreshold ==
    [][RejectedStep =>
          LET k == response'.req.ip
              new == LogOf(failedAttempts', k)
          IN /\ new # <<>>
             /\ new[Len(new)].timestamp = now
             /\ IF Len(InWindow(new, now)) >= 5
                THEN /\ Has(suspiciousIPs', k)
                     /\ suspiciousIPs'[k] = Get(suspiciousIPs, k, 0) + 1
                ELSE /\ Has(suspiciousIPs', k) <=> Has(suspiciousIPs, k)
                     /\ Get(suspiciousIPs', k, 0) = Get(suspiciousIPs, k, 0)
             /\ blacklistedIPs' = blacklistedIPs
             /\ OtherLogsKept(k)
             /\ \A j \in Keys \ {k} :
                   /\ Has(suspiciousIPs', j) <=> Has(suspiciousIPs, j)
                   /\ Get(suspiciousIPs', j, 0) = Get(suspiciousIPs, j, 0)]_vars

\* ip1 fails fifteen minutes after nine failures: its log is full, one entry
\* lies within the window and the score is what the nine failures left.
C25_Witness ==
    /\ response # NoResponse
    /\ response.req.ip = "ip1"
    /\ response.code = "TOKEN_MISSING"
    /\ response.at = Epoch + FifteenMinutes
    /\ now = response.at
    /\ Len(LogOf(failedAttempts, "ip1")) = RetentionCap
    /\ Len(InWindow(LogOf(failedAttempts, "ip1"), now)) = 1
    /\ Get(suspiciousIPs, "ip1", 0) = AfterFailures("ip1", RetentionCap - 1, Epoch).suspiciousIPs["ip1"]

(***************************************************************************)
(* The logs specification: both Failed-Attempt Logs at work.  Protected    *)
(* requests without a token and with a valid one feed and clear the log    *)
(* of auth.js, from an empty log or one an entry short of its cap;         *)
(* failures are recorded with securityMonitor past its cap; the sweep      *)
(* runs and the clock advances.                                            *)
(***************************************************************************)
MaxRecordsLogs == 21       \* failures recorded with securityMonitor for ip1
MaxRequestsLogs == 2       \* protected requests served in one run
MaxClockLogs == 1          \* ticks the clock may advance

RequestsLogs ==
    {Request("ip1", token, "good", "u1", "a@x") : token \in {<<>>, GoodToken}}

InitLogs ==
    /\ now = Epoch
    /\ reqsLeft = MaxRequestsLogs
    /\ policies = <<>>
    /\ InitRLVars
    /\ \E n \in {0, RetentionCap - 1} :
          LET before == AfterFailures("ip1", n, Epoch)
          IN /\ failedAttempts = before.failedAttempts
             /\ suspiciousIPs = before.suspiciousIPs
    /\ blacklistedIPs = {}
    /\ everFlagged = {}
    /\ users = <<KnownUser>>
    /\ response = NoResponse
    /\ roleResponse = NoResponse
    /\ InitMonitorVars
    /\ procs = EmptyMap

TickLogs ==
    /\ Advance(1, Epoch + MaxClockLogs)
    /\ UNCHANGED <<reqsLeft, rlVars, secVars, users, response, roleResponse, smVars, procs>>

NextLogs ==
    \/ Spend /\ \E req \in RequestsLogs : ProtectedRequest(req) /\ UNCHANGED procs
    \/ /\ Len(Get(recorded, "ip1", <<>>)) < MaxRecordsLogs
       /\ RecordFailedAttempt("ip1", "LOGIN_FAILED")
       /\ UNCHANGED reqsLeft
    \/ CleanupSecurityData
    \/ TickLogs

SpecLogs == InitLogs /\ [][NextLogs]_vars

(***************************************************************************)
(* C26: in every reachable state each key's Failed-Attempt Log is in       *)
(* insertion order with non-decreasing timestamps and holds at most the    *)
(* retention cap of entries (10 for trackFailedAttempt, 20 for             *)
(* securityMonitor.recordFailedAttempt); a record that would exceed the    *)
(* cap evicts exactly the oldest entry, so the log is always the most      *)
(* recent entries recorded for the key since it was last cleared or swept. *)
(***************************************************************************)
NonDecreasing(log) ==
    \A i \in 1..Len(log) - 1 : log[i].timestamp <= log[i + 1].timestamp

\* The last n elements of a sequence (all of it when it is shorter).
LastOf(s, n) == IF Len(s) <= n THEN s ELSE SubSeq(s, Len(s) - n + 1, Len(s))

Stamps(log) == [i \in 1..Len(log) |-> log[i].timestamp]

LogsWellFormed ==
    \A k \in Keys :
        /\ NonDecreasing(LogOf(failedAttempts, k))
        /\ Len(LogOf(failedAttempts, k)) <= 10
        /\ Has(failedAttempts, k) => failedAttempts[k] # <<>>
        /\ NonDecreasing(LogOf(monitorAttempts, k))
        /\ Len(LogOf(monitorAttempts, k)) <= 20
        /\ Stamps(LogOf(monitorAttempts, k)) = LastOf(Get(recorded, k, <<>>), 20)

RecordKeepsMostRecent ==
    RejectedStep =>
        LET k == response'.req.ip
            entry == [timestamp |-> now, reason |-> "NO_TOKEN"]
        IN LogOf(failedAttempts', k)
              = LastOf(Append(LogOf(failedAttempts, k), entry), 10)

C26_LogsCappedInOrder == []LogsWellFormed /\ [][RecordKeepsMostRecent]_vars

\* Both logs are full, each has evicted its oldest entry, and each holds
\* entries of two different times.
C26_Witness ==
    /\ Len(LogOf(failedAttempts, "ip1")) = 10
    /\ failedAttempts["ip1"][1].timestamp = Epoch
    /\ failedAttempts["ip1"][9].timestamp > Epoch
    /\ Len(LogOf(monitorAttempts, "ip1")) = 20
    /\ Len(recorded["ip1"]) = 21
    /\ monitorAttempts["ip1"][1].timestamp < monitorAttempts["ip1"][20].timestamp

(***************************************************************************)
(* The layered specification: the older server.  app.use(rateLimit(...))   *)
(* is the global policy, policies[1]; authRateLimit, policies[2], stands   *)
(* in front of the authentication routes.  Both are closures of rateLimit  *)
(* of part_000 over the one rateLimitStore.  A request goes to an          *)
(* authentication route (both policies) or to another route (the global    *)
(* policy only).  winSeen[key] counts the requests of the key that         *)
(* reached policies[2].                                                    *)
(***************************************************************************)
MaxGlobalLayered == 4      \* maxRequests of the global policy
MaxRouteLayered == 2       \* largest maxRequests of the route policy
MaxWindowLayered == 2      \* windowMs of both policies, in ticks
MaxClockLayered == 2       \* ticks the clock may advance
MaxRequestsLayered == 4    \* requests served in one run

RoutePaths == {"/auth/login", "/widgets"}

\* The limiters in front of a path.
LimitersOf(path) == IF path = "/auth/login" THEN policies ELSE <<policies[1]>>

LayeredRequest(key, path) ==
    /\ LET r == LimiterChain(rateLimitStore, key, now, LimitersOf(path), 1)
           reached == path = "/auth/login" /\ r.rejectedBy # 1
       IN /\ rateLimitStore' = r.store
          /\ winSeen' = IF reached THEN Put(winSeen, key, Get(winSeen, key, 0) + 1)
                        ELSE winSeen
          /\ rlResponse' = [limiter |-> "rateLimit", key |-> key, at |-> now,
                            path |-> path,
                            status |-> IF r.next THEN 200 ELSE 429,
                            code |-> IF r.next THEN None ELSE "RATE_LIMIT_EXCEEDED",
                            retryAfter |-> r.retryAfter,
                            rejectedBy |-> r.rejectedBy,
                            countBefore |-> IF Has(rateLimitStore, key)
                                            THEN rateLimitStore[key].count ELSE 0,
                            window |-> r.store[key],
                            reachedBefore |-> Get(winSeen, key, 0),
                            flip |-> ~rlResponse.flip]
    /\ UNCHANGED <<now, policies, winOpened, limiters, secVars, users, response,
                   roleResponse, smVars, procs>>

InitLayered ==
    /\ now = Epoch
    /\ reqsLeft = MaxRequestsLayered
    /\ \E m \in 1..MaxRouteLayered :
          policies = <<[max |-> MaxGlobalLayered, windowMs |-> MaxWindowLayered],
                       [max |-> m, windowMs |-> MaxWindowLayered]>>
    /\ InitRLVars
    /\ InitSecVars
    /\ users = <<>>
    /\ response = NoResponse
    /\ roleResponse = NoResponse
    /\ InitMonitorVars
    /\ procs = EmptyMap

TickLayered ==
    /\ Advance(1, Epoch + MaxClockLayered)
    /\ UNCHANGED <<reqsLeft, rlVars, secVars, users, response, roleResponse, smVars, procs>>

NextLayered ==
    \/ \E k \in Keys, path \in RoutePaths : Spend /\ LayeredRequest(k, path)
    \/ CleanupRateLimit
    \/ TickLayered

SpecLayered == InitLayered /\ [][NextLayered]_vars

(***************************************************************************)
(* C27: with a global policy and a stricter route policy layered on a      *)
(* path, each policy counts the requests that pass through it: a key is    *)
(* rejected by the route policy with maximum m only if at least m          *)
(* requests of that key had reached the route policy, however many         *)
(* requests the key made to other routes, and a request that both          *)
(* policies let through adds 1 to the count of each.                       *)
(***************************************************************************)
C27_PoliciesCountApart ==
    rlResponse # NoResponse =>
        /\ rlResponse.rejectedBy = 2 =>
              rlResponse.reachedBefore >= policies[2].max
        /\ (/\ rlResponse.status = 200
            /\ rlResponse.path = "/auth/login"
            /\ rlResponse.window.resetTime # rlResponse.at + policies[1].windowMs)
              => rlResponse.window.count = rlResponse.countBefore + 1

(***************************************************************************)
(* C28: optionalAuth attaches a Principal only to a request that           *)
(* authenticateToken would authenticate too: when the record resolved is   *)
(* suspended or of role inactive, or the provider's account is disabled,   *)
(* the request goes on to the handler with no Principal.  (Tokens the      *)
(* provider has revoked are the matter of C19 and are left out here.)      *)
(***************************************************************************)
WouldAuthenticate(req) ==
    authenticateToken(EmptyMap, EmptyMap, Found, req, now).next

C28_OptionalNoLaxerThanRequired ==
    (/\ response # NoResponse
     /\ response.handler = "optionalAuth"
     /\ response.req.tokenState # "revoked"
     /\ response.user # NoUser)
        => WouldAuthenticate(response.req)

(***************************************************************************)
(* The link-race specification: requests with valid tokens of two          *)
(* different external ids and the same email reach authenticateToken of    *)
(* part_000 together, their store calls interleaved, from every store of   *)
(* Stores.                                                                 *)
(***************************************************************************)
RequestsLink ==
    {Request("ip1", GoodToken, "good", uid, "a@x") : uid \in {"u1", "u2"}}

NextLinkRace ==
    \/ \E req \in RequestsLink : NextProc <= MaxRacers /\ SimpleBegin(req)
    \/ \E p \in DOMAIN procs : SimpleSelectUid(p)
    \/ \E p \in DOMAIN procs : SimpleSelectEmail(p)
    \/ \E p \in DOMAIN procs : SimpleLink(p)
    \/ \E p \in DOMAIN procs : SimpleInsert(p)

SpecLinkRace == InitRecon /\ [][NextLinkRace]_vars

(***************************************************************************)
(* C29: the identity link is write-once: a record that has an external id  *)
(* attached keeps it, whatever reconciliation runs later or at the same    *)
(* time; when two requests with different external ids and the same email  *)
(* race to link one unlinked record, at most one of them ends with a       *)
(* Principal for that record.                                              *)
(***************************************************************************)
LinkKept ==
    \A i \in 1..Len(users) :
        ~Unlinked(users[i]) => users'[i].firebase_uid = users[i].firebase_uid

OneWinner ==
    \A p, q \in DOMAIN procs :
        (/\ p # q
         /\ Finished(p) /\ Finished(q)
         /\ procs[p].req.uid # procs[q].req.uid
         /\ procs[p].user # NoUser /\ procs[q].user # NoUser)
        => procs[p].user.uid # procs[q].user.uid

C29_LinkIsWriteOnce == [][LinkKept]_vars /\ []OneWinner

(***************************************************************************)
(* C30: running cleanupRateLimit at any points between requests changes    *)
(* neither the allow/reject outcome nor the retryAfter of any request.     *)
(* It deletes a window only when the clock is past the window's reset      *)
(* time, when the key's next request would open a fresh window anyway,     *)
(* and leaves every window that is still current as it was.  winOpened     *)
(* and winSeen are what a limiter that is never cleaned up would know:     *)
(* when the key's window opened and how many requests it has seen.         *)
(***************************************************************************)
\* The window of a key in a store that is never cleaned up.
Uncleaned(k) ==
    [count |-> IF winSeen[k] <= policies[1].max THEN winSeen[k] ELSE policies[1].max,
     resetTime |-> winOpened[k] + policies[1].windowMs]

CleanupStep == rlResponse' = rlResponse /\ now' = now

CleanupDeletesExpiredOnly ==
    CleanupStep =>
        \A k \in DOMAIN rateLimitStore :
            IF now > rateLimitStore[k].resetTime
            THEN ~Has(rateLimitStore', k)
            ELSE Has(rateLimitStore', k) /\ rateLimitStore'[k] = rateLimitStore[k]

SameAsUncleaned ==
    /\ \A k \in DOMAIN rateLimitStore :
          Has(winOpened, k) /\ rateLimitStore[k] = Uncleaned(k)
    /\ \A k \in DOMAIN winOpened \ DOMAIN rateLimitStore :
          now > Uncleaned(k).resetTime
    /\ rlResponse # NoResponse =>
          /\ (rlResponse.status = 200) <=> (rlResponse.ordinal <= policies[1].max)
          /\ rlResponse.retryAfter =
                IF rlResponse.status = 200 THEN 0
                ELSE CeilDiv(Uncleaned(rlResponse.key).resetTime - rlResponse.at,
                             TicksPerSecond)

C30_CleanupIsInvisible == [][CleanupDeletesExpiredOnly]_vars /\ []SameAsUncleaned

\* ip2's expired window has been deleted; ip1 is rejected in a window that
\* is still current and still in the store.
C30_Witness ==
    /\ rlResponse # NoResponse
    /\ rlResponse.key = "ip1"
    /\ rlResponse.status = 429
    /\ rlResponse.at = now
    /\ Has(rateLimitStore, "ip1")
    /\ Has(winOpened, "ip2")
    /\ ~Has(rateLimitStore, "ip2")

====
